---------------------------- MODULE Spec2Model ----------------------------
(***************************************************************************)
(* State-machine model of the vaixterm terminal core: the grid and        *)
(* scrollback ring, the VT/ANSI byte parser (terminal_handle_input) and    *)
(* the user actions of the event loop that touch the terminal.             *)
(*                                                                         *)
(* C arrays are functions over 0..n-1, so that indices read as in the      *)
(* source; a PTY buffer is a sequence of byte values 0..255.               *)
(***************************************************************************)
EXTENDS Integers, Sequences, FiniteSets, TLC

VARIABLES
    term,       \* the Terminal struct
    pending,    \* bytes the shell has written that no read has returned yet
    nwrites,    \* shell writes so far
    nuser,      \* user actions so far
    fed,        \* history: every byte the parser has been given (SpecFed)
    alt_entry,  \* history: cursor and attributes at the last alt-screen entry (SpecFed)
    osk,        \* the OnScreenKeyboard struct
    sent,       \* the key and text events the last action handed to the PTY encoder
    repeat_state, \* the ButtonRepeatState of the main loop
    read_only,  \* config->read_only, set by --read-only on the command line
    buttons,    \* the controller buttons that are physically down
    event,      \* history: the last SDL event the loop handled
    started_by, \* history: the button whose press set up the present repeat
    written     \* the bytes the last event or loop step wrote to the PTY master

\* the variables of the controller and keyboard events
ctl_vars == <<repeat_state, read_only, buttons, event, started_by, written>>

vars == <<term, pending, nwrites, nuser, fed, alt_entry, osk, sent, ctl_vars>>

-----------------------------------------------------------------------------
(* Bounds of the model *)

\* number of shell writes (byte streams) delivered to the PTY in one run
MaxWrites == 2
\* number of user actions (scroll, resize, reset, clear) in one run
MaxUser == 1

-----------------------------------------------------------------------------
(* Program constants *)

CSI_MAX_PARAMS == 16
RESPONSE_BUFFER_SIZE == 64
MOUSE_WHEEL_SCROLL_AMOUNT == 3
OSC_BUFFER_SIZE == 256
CSI_INTERMEDIATE_SIZE == 4

ATTR_BOLD == 1
ATTR_ITALIC == 2
ATTR_UNDERLINE == 4
ATTR_INVERSE == 8
ATTR_BLINK == 16

STATE_NORMAL == "STATE_NORMAL"
STATE_ESCAPE == "STATE_ESCAPE"
STATE_CSI == "STATE_CSI"
STATE_OSC == "STATE_OSC"
STATE_DCS == "STATE_DCS"

CURSOR_STYLE_BLOCK == "CURSOR_STYLE_BLOCK"
CURSOR_STYLE_UNDERLINE == "CURSOR_STYLE_UNDERLINE"
CURSOR_STYLE_BAR == "CURSOR_STYLE_BAR"

\* a null pointer (alt_grid before the first CSI ?1049h)
NULL == <<>>

-----------------------------------------------------------------------------
(* C helpers *)

SDL_min(a, b) == IF a < b THEN a ELSE b
SDL_max(a, b) == IF a > b THEN a ELSE b
abs(n) == IF n < 0 THEN -n ELSE n

\* bit b (a power of two) of the attribute byte v
HasBit(v, b) == (v \div b) % 2 = 1
\* v | b and v & ~b for a single-bit mask b
BitOr(v, b) == IF HasBit(v, b) THEN v ELSE v + b
BitClear(v, b) == IF HasBit(v, b) THEN v - b ELSE v

\* (Uint8)v for v >= 0
Uint8(v) == v % 256

isdigit(c) == c >= 48 /\ c <= 57
\* isprint in the C locale
isprint(c) == c >= 32 /\ c <= 126

\* the bytes of a C string literal, as byte values
ESC == 27
BEL == 7

-----------------------------------------------------------------------------
(* Colours and glyphs *)

Color(r, g, b) == <<r, g, b, 255>>

default_palette ==
    [i \in 0..15 |->
        CASE i = 0 -> Color(46, 52, 54)    [] i = 1 -> Color(204, 0, 0)
          [] i = 2 -> Color(78, 154, 6)    [] i = 3 -> Color(196, 160, 0)
          [] i = 4 -> Color(52, 101, 164)  [] i = 5 -> Color(117, 80, 123)
          [] i = 6 -> Color(6, 152, 154)   [] i = 7 -> Color(211, 215, 207)
          [] i = 8 -> Color(85, 87, 83)    [] i = 9 -> Color(239, 41, 41)
          [] i = 10 -> Color(138, 226, 52) [] i = 11 -> Color(252, 233, 79)
          [] i = 12 -> Color(114, 159, 207) [] i = 13 -> Color(173, 127, 168)
          [] i = 14 -> Color(52, 226, 226) [] OTHER -> Color(238, 238, 236)]

\* the 6x6x6 cube and the 24 greys of terminal_init_xterm_colors
xterm_levels == <<0, 95, 135, 175, 215, 255>>

terminal_init_xterm_colors(colors) ==
    [i \in 0..255 |->
        IF i < 16 THEN colors[i]
        ELSE IF i < 232
             THEN LET k == i - 16
                  IN Color(xterm_levels[(k \div 36) + 1],
                           xterm_levels[((k \div 6) % 6) + 1],
                           xterm_levels[(k % 6) + 1])
             ELSE LET gray == 8 + (i - 232) * 10 IN Color(gray, gray, gray)]

Glyph(ch, fg, bg, attrs) ==
    [character |-> ch, fg |-> fg, bg |-> bg, attributes |-> attrs]

\* the glyph the clearing operations write: a blank in the current attributes
BlankGlyph(t) == Glyph(32, t.current_fg, t.current_bg, t.current_attributes)

-----------------------------------------------------------------------------
(* Dirty-line tracking (dirty_region_tracker.c) *)

terminal_mark_line_dirty(t, y) ==
    IF y < 0 \/ y >= t.rows THEN t
    ELSE IF t.dirty_lines[y] THEN t
    ELSE [t EXCEPT !.dirty_lines[y] = TRUE,
                   !.has_dirty_regions = TRUE,
                   !.dirty_min_y = IF ~t.has_dirty_regions THEN y
                                   ELSE SDL_min(y, t.dirty_min_y),
                   !.dirty_max_y = IF ~t.has_dirty_regions THEN y
                                   ELSE SDL_max(y, t.dirty_max_y)]

RECURSIVE mark_lines_loop(_, _, _)
mark_lines_loop(t, y, end_y) ==
    IF y > end_y THEN t
    ELSE mark_lines_loop(terminal_mark_line_dirty(t, y), y + 1, end_y)

terminal_mark_lines_dirty(t, start_y, end_y) ==
    mark_lines_loop(t, SDL_max(start_y, 0), SDL_min(end_y, t.rows - 1))

\* term->dirty_lines[y] = true, written without the tracker (terminal_put_char,
\* terminal_insert_chars, ...).  With y outside 0..rows-1 the C store lands
\* outside the array; the model keeps the array as it is.
set_dirty_raw(t, y) ==
    IF y >= 0 /\ y < t.rows THEN [t EXCEPT !.dirty_lines[y] = TRUE] ELSE t

-----------------------------------------------------------------------------
(* Terminal lifecycle *)

terminal_reset(t) ==
    [t EXCEPT
        !.current_fg = t.default_fg,
        !.current_bg = t.default_bg,
        !.current_attributes = 0,
        !.cursor_x = 0,
        !.cursor_y = 0,
        !.saved_cursor_x = 0,
        !.saved_cursor_y = 0,
        !.scroll_top = 1,
        !.scroll_bottom = t.rows,
        !.parse_state = STATE_NORMAL,
        !.csi_param_count = 0,
        !.csi_intermediate_count = 0,
        !.csi_intermediate_chars = <<>>,
        !.csi_private_marker = 0,
        !.csi_params = [i \in 0..(CSI_MAX_PARAMS - 1) |-> 0],
        !.application_cursor_keys_mode = FALSE,
        !.cursor_visible = TRUE,
        !.application_keypad_mode = FALSE,
        !.autowrap_mode = TRUE,
        !.cursor_style = CURSOR_STYLE_BLOCK,
        !.cursor_style_blinking = TRUE,
        !.insert_mode = FALSE,
        !.origin_mode = FALSE,
        !.utf8_codepoint = 0,
        !.utf8_bytes_to_read = 0,
        !.charsets = [i \in 0..1 |-> 66],
        !.active_charset = 0,
        !.top_line = 0,
        !.view_offset = 0,
        !.history_size = 0,
        !.grid = [l \in 0..(t.total_lines - 1) |->
                    [x \in 0..(t.cols - 1) |->
                        Glyph(32, t.default_fg, t.default_bg, 0)]],
        !.dirty_lines = [y \in 0..(t.rows - 1) |-> TRUE],
        !.full_redraw_needed = TRUE]

\* terminal_create without a colour scheme or background image; the fields
\* terminal_reset assigns are given their reset values directly.
terminal_create(cols, rows, scrollback_lines) ==
    terminal_reset(
        [cols |-> cols, rows |-> rows,
         cursor_x |-> 0, cursor_y |-> 0,
         current_fg |-> default_palette[2], current_bg |-> default_palette[0],
         colors |-> default_palette,
         xterm_colors |-> terminal_init_xterm_colors(default_palette),
         default_fg |-> default_palette[2],
         default_bg |-> default_palette[0],
         cursor_color |-> default_palette[2],
         current_attributes |-> 0,
         grid |-> <<>>,
         alt_grid |-> NULL,
         scrollback |-> scrollback_lines,
         total_lines |-> rows + scrollback_lines,
         top_line |-> 0, view_offset |-> 0, history_size |-> 0,
         parse_state |-> STATE_NORMAL,
         csi_params |-> [i \in 0..(CSI_MAX_PARAMS - 1) |-> 0],
         csi_param_count |-> 0,
         osc_buffer |-> <<>>, osc_len |-> 0,
         csi_private_marker |-> 0,
         csi_intermediate_chars |-> <<>>, csi_intermediate_count |-> 0,
         saved_cursor_x |-> 0, saved_cursor_y |-> 0,
         scroll_top |-> 1, scroll_bottom |-> rows,
         cursor_style |-> CURSOR_STYLE_BLOCK, cursor_style_blinking |-> TRUE,
         application_cursor_keys_mode |-> FALSE, cursor_visible |-> TRUE,
         application_keypad_mode |-> FALSE, alt_screen_active |-> FALSE,
         autowrap_mode |-> TRUE, insert_mode |-> FALSE, origin_mode |-> FALSE,
         charsets |-> [i \in 0..1 |-> 66], active_charset |-> 0,
         utf8_codepoint |-> 0, utf8_bytes_to_read |-> 0,
         response_buffer |-> <<>>, response_len |-> 0,
         normal_saved_cursor_x |-> 0, normal_saved_cursor_y |-> 0,
         dirty_lines |-> <<>>,
         has_dirty_regions |-> FALSE, dirty_min_y |-> -1, dirty_max_y |-> -1,
         full_redraw_needed |-> TRUE])

-----------------------------------------------------------------------------
(* Grid operations *)

\* get_line: the line a logical row y lives in, as (buffer, line index), or
\* NULL.  On the normal screen the ring is addressed from top_line.
get_line(t, y) ==
    IF y < 0 \/ y >= t.rows THEN NULL
    ELSE IF t.alt_screen_active
         THEN (IF t.alt_grid # NULL THEN [buf |-> "alt", idx |-> y] ELSE NULL)
         ELSE [buf |-> "grid", idx |-> (t.top_line + y) % t.total_lines]

\* *line_ptr and the store through it
read_line(t, p) == IF p.buf = "alt" THEN t.alt_grid[p.idx] ELSE t.grid[p.idx]

write_line(t, p, row) ==
    IF p.buf = "alt" THEN [t EXCEPT !.alt_grid[p.idx] = row]
    ELSE [t EXCEPT !.grid[p.idx] = row]

terminal_clear_line_to_cursor(t, y, end_x) ==
    LET line_ptr == get_line(t, y) IN
    IF line_ptr = NULL THEN t
    ELSE LET old == read_line(t, line_ptr)
             new == [x \in 0..(t.cols - 1) |->
                       IF x <= end_x THEN BlankGlyph(t) ELSE old[x]]
         IN terminal_mark_line_dirty(write_line(t, line_ptr, new), y)

terminal_clear_line(t, y, start_x) ==
    LET line_ptr == get_line(t, y) IN
    IF line_ptr = NULL THEN t
    ELSE LET old == read_line(t, line_ptr)
             new == [x \in 0..(t.cols - 1) |->
                       IF x >= start_x THEN BlankGlyph(t) ELSE old[x]]
         IN terminal_mark_line_dirty(write_line(t, line_ptr, new), y)

\* for (y = from; y < to; ++y) terminal_clear_line(term, y, 0)
RECURSIVE clear_lines_loop(_, _, _)
clear_lines_loop(t, y, to) ==
    IF y >= to THEN t
    ELSE clear_lines_loop(terminal_clear_line(t, y, 0), y + 1, to)

terminal_clear_visible_screen(t) ==
    [clear_lines_loop(t, 0, t.rows) EXCEPT !.full_redraw_needed = TRUE]

\* the row copies of terminal_scroll_region on the normal screen, upward:
\* for y in 0..count-1, line top_y+y := line top_y+num+y (in that order)
RECURSIVE copy_up_loop(_, _, _, _, _)
copy_up_loop(t, top_y, num, y, count) ==
    IF y >= count THEN t
    ELSE LET dest_line == get_line(t, top_y + y)
             src_line == get_line(t, top_y + num + y)
             t1 == IF dest_line # NULL /\ src_line # NULL
                   THEN write_line(t, dest_line, read_line(t, src_line))
                   ELSE t
         IN copy_up_loop(t1, top_y, num, y + 1, count)

\* downward: for y = count-1 downto 0, line bottom_y-y := line bottom_y-num-y
RECURSIVE copy_down_loop(_, _, _, _)
copy_down_loop(t, bottom_y, num, y) ==
    IF y < 0 THEN t
    ELSE LET dest_line == get_line(t, bottom_y - y)
             src_line == get_line(t, bottom_y - num - y)
             t1 == IF dest_line # NULL /\ src_line # NULL
                   THEN write_line(t, dest_line, read_line(t, src_line))
                   ELSE t
         IN copy_down_loop(t1, bottom_y, num, y - 1)

\* memmove of count rows inside alt_grid from row src to row dst
alt_memmove(t, dst, src, count) ==
    [t EXCEPT !.alt_grid =
        [y \in DOMAIN t.alt_grid |->
            IF y >= dst /\ y < dst + count
            THEN t.alt_grid[src + (y - dst)] ELSE t.alt_grid[y]]]

terminal_scroll_region(t, top_y, bottom_y, n_lines) ==
    IF n_lines = 0 \/ top_y > bottom_y \/ top_y < 0 \/ bottom_y >= t.rows
    THEN t
    ELSE
    LET t0 == [t EXCEPT !.full_redraw_needed = TRUE]
        region_height == bottom_y - top_y + 1
        num_to_scroll == SDL_min(abs(n_lines), region_height)
        count == region_height - num_to_scroll
    IN
    IF t0.alt_screen_active /\ t0.alt_grid # NULL
    THEN IF n_lines > 0
         THEN LET t1 == IF count > 0
                        THEN alt_memmove(t0, top_y, top_y + num_to_scroll, count)
                        ELSE t0
              IN clear_lines_loop(t1, bottom_y - num_to_scroll + 1, bottom_y + 1)
         ELSE LET t1 == IF count > 0
                        THEN alt_memmove(t0, top_y + num_to_scroll, top_y, count)
                        ELSE t0
              IN clear_lines_loop(t1, top_y, top_y + num_to_scroll)
    ELSE
    LET t1 == mark_lines_loop(t0, top_y, bottom_y) IN
    IF n_lines > 0
    THEN LET t2 == IF count > 0
                   THEN copy_up_loop(t1, top_y, num_to_scroll, 0, count)
                   ELSE t1
         IN clear_lines_loop(t2, bottom_y - num_to_scroll + 1, bottom_y + 1)
    ELSE LET t2 == IF count > 0
                   THEN copy_down_loop(t1, bottom_y, num_to_scroll, count - 1)
                   ELSE t1
         IN clear_lines_loop(t2, top_y, top_y + num_to_scroll)

terminal_insert_chars(t, n0) ==
    LET line == get_line(t, t.cursor_y)
        x == t.cursor_x
    IN
    IF line = NULL THEN t
    ELSE IF x >= t.cols THEN t
    ELSE LET n == SDL_min(n0, t.cols - x)
             old == read_line(t, line)
             new == [i \in 0..(t.cols - 1) |->
                       IF i < x THEN old[i]
                       ELSE IF i < x + n THEN BlankGlyph(t)
                       ELSE old[i - n]]
         IN set_dirty_raw(write_line(t, line, new), t.cursor_y)

terminal_delete_chars(t, n0) ==
    LET line == get_line(t, t.cursor_y)
        x == t.cursor_x
    IN
    IF line = NULL THEN t
    ELSE IF x >= t.cols THEN t
    ELSE LET n == SDL_min(n0, t.cols - x)
             old == read_line(t, line)
             new == [i \in 0..(t.cols - 1) |->
                       IF i < x THEN old[i]
                       ELSE IF i >= t.cols - n THEN BlankGlyph(t)
                       ELSE old[i + n]]
         IN set_dirty_raw(write_line(t, line, new), t.cursor_y)

terminal_erase_chars(t, n0) ==
    LET line == get_line(t, t.cursor_y)
        x == t.cursor_x
    IN
    IF line = NULL THEN t
    ELSE IF x >= t.cols THEN t
    ELSE LET n == SDL_min(n0, t.cols - x)
             old == read_line(t, line)
             new == [i \in 0..(t.cols - 1) |->
                       IF i >= x /\ i < x + n THEN BlankGlyph(t) ELSE old[i]]
         IN set_dirty_raw(write_line(t, line, new), t.cursor_y)

\* terminal_scroll_up that recycles the top line without counting it as history
scroll_up_no_history(t) ==
    IF t.alt_screen_active THEN t
    ELSE terminal_clear_line(
            [t EXCEPT !.top_line = (t.top_line + 1) % t.total_lines],
            t.rows - 1, 0)

\* terminal_scroll_up that advances top_line by two lines
scroll_up_two_lines(t) ==
    IF t.alt_screen_active THEN t
    ELSE terminal_clear_line(
            [t EXCEPT !.top_line = (t.top_line + 2) % t.total_lines,
                      !.history_size = IF t.history_size < t.scrollback
                                       THEN t.history_size + 1
                                       ELSE t.history_size],
            t.rows - 1, 0)

terminal_scroll_up(t) ==
    IF t.alt_screen_active
    THEN IF t.alt_grid # NULL
         THEN terminal_clear_line(alt_memmove(t, 0, 1, t.rows - 1), t.rows - 1, 0)
         ELSE t
    ELSE LET t1 == [t EXCEPT
                      !.top_line = (t.top_line + 1) % t.total_lines,
                      !.history_size = IF t.history_size < t.scrollback
                                       THEN t.history_size + 1
                                       ELSE t.history_size,
                      !.full_redraw_needed = TRUE]
         IN terminal_clear_line(
                terminal_mark_lines_dirty(t1, 0, t1.rows - 1), t1.rows - 1, 0)

terminal_newline(t) ==
    LET t1 == [t EXCEPT !.cursor_y = t.cursor_y + 1] IN
    IF t1.cursor_y >= t1.scroll_bottom
    THEN LET t2 == [t1 EXCEPT !.cursor_y = t1.scroll_bottom - 1] IN
         IF t2.scroll_top = 1 /\ t2.scroll_bottom = t2.rows
         THEN terminal_scroll_up(t2)
         ELSE terminal_scroll_region(t2, t2.scroll_top - 1, t2.scroll_bottom - 1, 1)
    ELSE t1

\* DEC Special Graphics for the bytes ` .. ~ (96..126)
dec_special_graphics ==
    <<9670, 9618, 9225, 9228, 9229, 9226, 176, 177, 9252, 9227, 9496, 9488,
      9484, 9492, 9532, 9146, 9147, 9472, 9148, 9149, 9500, 9508, 9524, 9516,
      9474, 8804, 8805, 960, 8800, 163, 183>>

map_char_for_charset(c, charset) ==
    IF charset # 48 \/ c < 96 \/ c > 126 THEN c
    ELSE dec_special_graphics[c - 95]

\* the deferred wrap at the head of terminal_put_char
put_char_wrap(t) ==
    IF t.autowrap_mode /\ t.cursor_x >= t.cols
    THEN terminal_newline([t EXCEPT !.cursor_x = 0])
    ELSE t

put_char_insert(t) ==
    IF t.insert_mode THEN terminal_insert_chars(t, 1) ELSE t

\* the glyph store, the dirty flag and the cursor advance
put_char_store(t, c) ==
    LET write_x == IF t.cursor_x >= t.cols THEN t.cols - 1 ELSE t.cursor_x
        mapped_char == IF c < 128
                       THEN map_char_for_charset(c, t.charsets[t.active_charset])
                       ELSE c
        line_ptr == get_line(t, t.cursor_y)
        g == Glyph(mapped_char, t.current_fg, t.current_bg, t.current_attributes)
        grids == IF line_ptr = NULL THEN [grid |-> t.grid, alt_grid |-> t.alt_grid]
                 ELSE IF line_ptr.buf = "alt"
                 THEN [grid |-> t.grid,
                       alt_grid |-> [t.alt_grid EXCEPT ![line_ptr.idx][write_x] = g]]
                 ELSE [grid |-> [t.grid EXCEPT ![line_ptr.idx][write_x] = g],
                       alt_grid |-> t.alt_grid]
    IN [t EXCEPT
          !.grid = grids.grid,
          !.alt_grid = grids.alt_grid,
          !.dirty_lines = IF t.cursor_y >= 0 /\ t.cursor_y < t.rows
                          THEN [@ EXCEPT ![t.cursor_y] = TRUE] ELSE @,
          !.cursor_x = IF t.cursor_x < t.cols THEN t.cursor_x + 1 ELSE t.cursor_x]

terminal_put_char(t, c) ==
    put_char_store(put_char_insert(put_char_wrap(t)), c)

\* terminal_get_view_line: the ring line shown at viewport row y
terminal_get_view_line(t, y) ==
    IF y < 0 \/ y >= t.rows THEN NULL
    ELSE IF t.alt_screen_active
         THEN (IF t.alt_grid # NULL THEN [buf |-> "alt", idx |-> y] ELSE NULL)
         ELSE LET logical_y == t.top_line - t.view_offset + y
              IN [buf |-> "grid", idx |-> logical_y % t.total_lines]

-----------------------------------------------------------------------------
(* CSI handlers *)

\* for each parameter in order, the effect of one CSI ? Pn h
csi_h_private_one(t, p) ==
    LET t1 == IF p = 1 THEN [t EXCEPT !.application_cursor_keys_mode = TRUE] ELSE t
        t2 == IF p = 6
              THEN [t1 EXCEPT !.origin_mode = TRUE, !.cursor_x = 0,
                              !.cursor_y = t1.scroll_top - 1]
              ELSE t1
        t3 == IF p = 7 THEN [t2 EXCEPT !.autowrap_mode = TRUE] ELSE t2
        t4 == IF p = 66 THEN [t3 EXCEPT !.application_keypad_mode = TRUE] ELSE t3
        t5 == IF p = 25 THEN [t4 EXCEPT !.cursor_visible = TRUE] ELSE t4
    IN
    IF p = 1049 /\ ~t5.alt_screen_active
    THEN \* malloc of the alternate buffer (taken to succeed); its cells are
         \* all written by terminal_clear_visible_screen before any is read
         LET t6 == IF t5.alt_grid = NULL
                   THEN [t5 EXCEPT !.alt_grid =
                            [y \in 0..(t5.rows - 1) |->
                                [x \in 0..(t5.cols - 1) |-> BlankGlyph(t5)]]]
                   ELSE t5
             t7 == [t6 EXCEPT !.normal_saved_cursor_x = t6.cursor_x,
                              !.normal_saved_cursor_y = t6.cursor_y,
                              !.alt_screen_active = TRUE]
         IN [terminal_clear_visible_screen(t7) EXCEPT !.cursor_x = 0, !.cursor_y = 0]
    ELSE t5

RECURSIVE csi_h_private_loop(_, _)
csi_h_private_loop(t, i) ==
    IF i >= t.csi_param_count THEN t
    ELSE csi_h_private_loop(csi_h_private_one(t, t.csi_params[i]), i + 1)

csi_h_private(t) == csi_h_private_loop(t, 0)

csi_l_private_one(t, p) ==
    LET t1 == IF p = 1 THEN [t EXCEPT !.application_cursor_keys_mode = FALSE] ELSE t
        t2 == IF p = 6
              THEN [t1 EXCEPT !.origin_mode = FALSE, !.cursor_x = 0, !.cursor_y = 0]
              ELSE t1
        t3 == IF p = 7 THEN [t2 EXCEPT !.autowrap_mode = FALSE] ELSE t2
        t4 == IF p = 66 THEN [t3 EXCEPT !.application_keypad_mode = FALSE] ELSE t3
        t5 == IF p = 25 THEN [t4 EXCEPT !.cursor_visible = FALSE] ELSE t4
    IN
    IF p = 1049 /\ t5.alt_screen_active
    THEN [t5 EXCEPT !.alt_screen_active = FALSE,
                    !.cursor_x = t5.normal_saved_cursor_x,
                    !.cursor_y = t5.normal_saved_cursor_y,
                    !.full_redraw_needed = TRUE]
    ELSE t5

RECURSIVE csi_l_private_loop(_, _)
csi_l_private_loop(t, i) ==
    IF i >= t.csi_param_count THEN t
    ELSE csi_l_private_loop(csi_l_private_one(t, t.csi_params[i]), i + 1)

csi_l_private(t) == csi_l_private_loop(t, 0)

\* (term->csi_params[0] == 0) ? 1 : term->csi_params[0]
P1or1(t) == IF t.csi_params[0] = 0 THEN 1 ELSE t.csi_params[0]

\* csi_A clamped at the top of the screen instead of scroll_top
csi_A_screen(t) ==
    [t EXCEPT !.cursor_y = SDL_max(0, t.cursor_y - P1or1(t))]

csi_A(t) ==
    [t EXCEPT !.cursor_y = SDL_max(t.scroll_top - 1, t.cursor_y - P1or1(t))]

csi_B(t) ==
    [t EXCEPT !.cursor_y = SDL_min(t.scroll_bottom - 1, t.cursor_y + P1or1(t))]

csi_C(t) ==
    [t EXCEPT !.cursor_x = SDL_min(t.cols - 1, t.cursor_x + P1or1(t))]

csi_D(t) ==
    [t EXCEPT !.cursor_x = SDL_min(t.cols - 1, SDL_max(0, t.cursor_x - P1or1(t)))]

csi_G(t) ==
    [t EXCEPT !.cursor_x =
        SDL_min(t.cols - 1, SDL_max(0, SDL_min(t.cols, P1or1(t) - 1)))]

csi_d(t) ==
    [t EXCEPT !.cursor_y = SDL_max(0, SDL_min(t.rows - 1, P1or1(t) - 1))]

csi_H(t) ==
    LET p1 == IF t.csi_params[0] = 0 THEN 1 ELSE t.csi_params[0]
        p2 == IF t.csi_params[1] = 0 THEN 1 ELSE t.csi_params[1]
    IN
    IF t.origin_mode
    THEN [t EXCEPT
            !.cursor_y = SDL_max(t.scroll_top - 1,
                            SDL_min(t.scroll_bottom - 1,
                                    (p1 - 1) + (t.scroll_top - 1))),
            !.cursor_x = SDL_max(0, SDL_min(t.cols - 1, p2 - 1))]
    ELSE [t EXCEPT
            !.cursor_y = SDL_max(0, SDL_min(t.rows - 1, p1 - 1)),
            !.cursor_x = SDL_max(0, SDL_min(t.cols - 1, p2 - 1))]

csi_J(t) ==
    LET p1 == t.csi_params[0] IN
    IF p1 = 2 THEN terminal_clear_visible_screen(t)
    ELSE IF p1 = 0
    THEN clear_lines_loop(terminal_clear_line(t, t.cursor_y, t.cursor_x),
                          t.cursor_y + 1, t.rows)
    ELSE IF p1 = 1
    THEN terminal_clear_line_to_cursor(clear_lines_loop(t, 0, t.cursor_y),
                                       t.cursor_y, t.cursor_x)
    ELSE t

csi_K(t) ==
    LET p1 == t.csi_params[0] IN
    IF p1 = 0 THEN terminal_clear_line(t, t.cursor_y, t.cursor_x)
    ELSE IF p1 = 1 THEN terminal_clear_line_to_cursor(t, t.cursor_y, t.cursor_x)
    ELSE IF p1 = 2 THEN terminal_clear_line(t, t.cursor_y, 0)
    ELSE t

\* the decimal digits of n >= 0, as bytes (printf %d)
RECURSIVE itoa(_)
itoa(n) == IF n < 10 THEN <<48 + n>> ELSE Append(itoa(n \div 10), 48 + (n % 10))

\* snprintf(response_buffer, RESPONSE_BUFFER_SIZE, ...): the buffer keeps at
\* most RESPONSE_BUFFER_SIZE - 1 bytes, the return value is the full length
snprintf_response(t, bytes) ==
    [t EXCEPT !.response_buffer =
                  SubSeq(bytes, 1, SDL_min(Len(bytes), RESPONSE_BUFFER_SIZE - 1)),
              !.response_len = Len(bytes)]

csi_c(t) ==
    IF t.csi_params[0] = 0 /\ t.response_len = 0
    THEN snprintf_response(t, <<ESC, 91, 63, 49, 59, 50, 99>>)
    ELSE t

csi_n(t) ==
    IF t.csi_params[0] = 6 /\ t.response_len = 0
    THEN snprintf_response(t,
            <<ESC, 91>> \o itoa(t.cursor_y + 1) \o <<59>>
                \o itoa(t.cursor_x + 1) \o <<82>>)
    ELSE t

csi_t(t) ==
    IF t.csi_params[0] = 18 /\ t.response_len = 0
    THEN snprintf_response(t,
            <<ESC, 91, 56, 59>> \o itoa(t.rows) \o <<59>> \o itoa(t.cols) \o <<116>>)
    ELSE t

\* sgr_parse_extended_color: the terminal and the number of parameters consumed
sgr_parse_extended_color(t, start_idx, is_fg) ==
    IF start_idx + 1 >= t.csi_param_count THEN [t |-> t, skip |-> 0]
    ELSE
    LET color_mode == t.csi_params[start_idx + 1] IN
    IF color_mode = 5 /\ start_idx + 2 < t.csi_param_count
    THEN LET color_idx == t.csi_params[start_idx + 2]
             t1 == IF color_idx >= 0 /\ color_idx <= 255
                   THEN IF is_fg
                        THEN [t EXCEPT !.current_fg = t.xterm_colors[color_idx]]
                        ELSE [t EXCEPT !.current_bg = t.xterm_colors[color_idx]]
                   ELSE t
         IN [t |-> t1, skip |-> 2]
    ELSE IF color_mode = 2 /\ start_idx + 4 < t.csi_param_count
    THEN LET c == <<Uint8(t.csi_params[start_idx + 2]),
                    Uint8(t.csi_params[start_idx + 3]),
                    Uint8(t.csi_params[start_idx + 4]), 255>>
         IN [t |-> IF is_fg THEN [t EXCEPT !.current_fg = c]
                   ELSE [t EXCEPT !.current_bg = c],
             skip |-> 4]
    ELSE [t |-> t, skip |-> 0]

\* one iteration of the sgr_to_color loop at index i
sgr_one(t, i) ==
    LET code == t.csi_params[i] IN
    CASE code = 0 -> [t |-> [t EXCEPT !.current_fg = t.default_fg,
                                      !.current_bg = t.default_bg,
                                      !.current_attributes = 0], skip |-> 0]
      [] code = 1 -> [t |-> [t EXCEPT !.current_attributes = BitOr(@, ATTR_BOLD)], skip |-> 0]
      [] code = 3 -> [t |-> [t EXCEPT !.current_attributes = BitOr(@, ATTR_ITALIC)], skip |-> 0]
      [] code = 4 -> [t |-> [t EXCEPT !.current_attributes = BitOr(@, ATTR_UNDERLINE)], skip |-> 0]
      [] code = 5 -> [t |-> [t EXCEPT !.current_attributes = BitOr(@, ATTR_BLINK)], skip |-> 0]
      [] code = 7 -> [t |-> [t EXCEPT !.current_attributes = BitOr(@, ATTR_INVERSE)], skip |-> 0]
      [] code = 22 -> [t |-> [t EXCEPT !.current_attributes = BitClear(@, ATTR_BOLD)], skip |-> 0]
      [] code = 23 -> [t |-> [t EXCEPT !.current_attributes = BitClear(@, ATTR_ITALIC)], skip |-> 0]
      [] code = 24 -> [t |-> [t EXCEPT !.current_attributes = BitClear(@, ATTR_UNDERLINE)], skip |-> 0]
      [] code = 25 -> [t |-> [t EXCEPT !.current_attributes = BitClear(@, ATTR_BLINK)], skip |-> 0]
      [] code = 27 -> [t |-> [t EXCEPT !.current_attributes = BitClear(@, ATTR_INVERSE)], skip |-> 0]
      [] code >= 30 /\ code <= 37 ->
            [t |-> [t EXCEPT !.current_fg = t.colors[code - 30]], skip |-> 0]
      [] code >= 40 /\ code <= 47 ->
            [t |-> [t EXCEPT !.current_bg = t.colors[code - 40]], skip |-> 0]
      [] code >= 90 /\ code <= 97 ->
            [t |-> [t EXCEPT !.current_fg = t.colors[code - 90 + 8]], skip |-> 0]
      [] code >= 100 /\ code <= 107 ->
            [t |-> [t EXCEPT !.current_bg = t.colors[code - 100 + 8]], skip |-> 0]
      [] code = 38 -> sgr_parse_extended_color(t, i, TRUE)
      [] code = 39 -> [t |-> [t EXCEPT !.current_fg = t.default_fg], skip |-> 0]
      [] code = 48 -> sgr_parse_extended_color(t, i, FALSE)
      [] code = 49 -> [t |-> [t EXCEPT !.current_bg = t.default_bg], skip |-> 0]
      [] OTHER -> [t |-> t, skip |-> 0]

RECURSIVE sgr_loop(_, _)
sgr_loop(t, i) ==
    IF i >= t.csi_param_count THEN t
    ELSE LET r == sgr_one(t, i) IN sgr_loop(r.t, i + r.skip + 1)

sgr_to_color(t) == sgr_loop(t, 0)

\* csi_m whose reset leaves the background as it is
csi_m_keep_bg(t) ==
    IF t.csi_param_count = 1 /\ t.csi_params[0] = 0
    THEN [t EXCEPT !.current_fg = t.default_fg, !.current_attributes = 0]
    ELSE sgr_to_color(t)

csi_m(t) ==
    IF t.csi_param_count = 1 /\ t.csi_params[0] = 0
    THEN [t EXCEPT !.current_fg = t.default_fg,
                   !.current_bg = t.default_bg,
                   !.current_attributes = 0]
    ELSE sgr_to_color(t)

RECURSIVE csi_mode_loop(_, _, _)
csi_mode_loop(t, i, value) ==
    IF i >= t.csi_param_count THEN t
    ELSE csi_mode_loop(IF t.csi_params[i] = 4
                       THEN [t EXCEPT !.insert_mode = value] ELSE t,
                       i + 1, value)

csi_h(t) == csi_mode_loop(t, 0, TRUE)
csi_l(t) == csi_mode_loop(t, 0, FALSE)

csi_q(t) ==
    IF t.csi_intermediate_chars = <<32>>
    THEN LET style == IF t.csi_param_count > 0 THEN t.csi_params[0] ELSE 1 IN
         IF style >= 0 /\ style <= 6
         THEN [t EXCEPT
                 !.cursor_style = IF style <= 2 THEN CURSOR_STYLE_BLOCK
                                  ELSE IF style <= 4 THEN CURSOR_STYLE_UNDERLINE
                                  ELSE CURSOR_STYLE_BAR,
                 !.cursor_style_blinking = style \in {0, 1, 3, 5}]
         ELSE t
    ELSE t

csi_s(t) ==
    [t EXCEPT !.saved_cursor_x = t.cursor_x, !.saved_cursor_y = t.cursor_y]

csi_u(t) ==
    [t EXCEPT !.cursor_x = t.saved_cursor_x, !.cursor_y = t.saved_cursor_y]

\* the locals top and bottom of csi_r
csi_r_top(t) ==
    IF t.csi_param_count > 0 /\ t.csi_params[0] > 0 THEN t.csi_params[0] ELSE 1

csi_r_bottom(t) ==
    IF t.csi_param_count > 1 /\ t.csi_params[1] > 0 THEN t.csi_params[1] ELSE t.rows

\* csi_r accepting top = bottom
csi_r_inclusive(t) ==
    IF csi_r_top(t) <= csi_r_bottom(t) /\ csi_r_bottom(t) <= t.rows
    THEN [t EXCEPT !.scroll_top = csi_r_top(t), !.scroll_bottom = csi_r_bottom(t),
                   !.cursor_x = 0, !.cursor_y = 0]
    ELSE t

\* csi_r without the test of bottom against the number of rows
csi_r_unchecked(t) ==
    IF csi_r_top(t) < csi_r_bottom(t)
    THEN [t EXCEPT !.scroll_top = csi_r_top(t), !.scroll_bottom = csi_r_bottom(t),
                   !.cursor_x = 0, !.cursor_y = 0]
    ELSE t

csi_r(t) ==
    IF csi_r_top(t) < csi_r_bottom(t) /\ csi_r_bottom(t) <= t.rows
    THEN [t EXCEPT !.scroll_top = csi_r_top(t), !.scroll_bottom = csi_r_bottom(t),
                   !.cursor_x = 0, !.cursor_y = 0]
    ELSE t

csi_at(t) == terminal_insert_chars(t, P1or1(t))

csi_L(t) ==
    IF t.cursor_y >= t.scroll_top - 1 /\ t.cursor_y < t.scroll_bottom
    THEN terminal_scroll_region(t, t.cursor_y, t.scroll_bottom - 1, -P1or1(t))
    ELSE t

csi_M(t) ==
    IF t.cursor_y >= t.scroll_top - 1 /\ t.cursor_y < t.scroll_bottom
    THEN terminal_scroll_region(t, t.cursor_y, t.scroll_bottom - 1, P1or1(t))
    ELSE t

csi_P(t) == terminal_delete_chars(t, P1or1(t))

csi_S(t) ==
    terminal_scroll_region(t, t.scroll_top - 1, t.scroll_bottom - 1, P1or1(t))

csi_T(t) ==
    terminal_scroll_region(t, t.scroll_top - 1, t.scroll_bottom - 1, -P1or1(t))

csi_X(t) == terminal_erase_chars(t, P1or1(t))

\* handle_csi: the first table entry whose final byte and private marker match
handle_csi(t, command) ==
    LET pm == t.csi_private_marker IN
    IF pm = 63
    THEN CASE command = 104 -> csi_h_private(t)
           [] command = 108 -> csi_l_private(t)
           [] OTHER -> t
    ELSE IF pm = 0
    THEN CASE command = 65 -> csi_A(t)   [] command = 66 -> csi_B(t)
           [] command = 67 -> csi_C(t)   [] command = 68 -> csi_D(t)
           [] command = 71 -> csi_G(t)   [] command = 100 -> csi_d(t)
           [] command = 72 -> csi_H(t)   [] command = 102 -> csi_H(t)
           [] command = 74 -> csi_J(t)   [] command = 75 -> csi_K(t)
           [] command = 99 -> csi_c(t)   [] command = 110 -> csi_n(t)
           [] command = 109 -> csi_m(t)  [] command = 104 -> csi_h(t)
           [] command = 108 -> csi_l(t)  [] command = 113 -> csi_q(t)
           [] command = 115 -> csi_s(t)  [] command = 117 -> csi_u(t)
           [] command = 114 -> csi_r(t)  [] command = 64 -> csi_at(t)
           [] command = 76 -> csi_L(t)   [] command = 77 -> csi_M(t)
           [] command = 80 -> csi_P(t)   [] command = 83 -> csi_S(t)
           [] command = 84 -> csi_T(t)   [] command = 94 -> csi_T(t)
           [] command = 88 -> csi_X(t)   [] command = 116 -> csi_t(t)
           [] OTHER -> t
    ELSE t

-----------------------------------------------------------------------------
(* OSC 4 palette assignment *)

\* the byte of the NUL-terminated string s at 1-based position p (0 at its end)
CharAt(s, p) == IF p >= 1 /\ p <= Len(s) THEN s[p] ELSE 0

isxdigit(c) == isdigit(c) \/ (c >= 97 /\ c <= 102) \/ (c >= 65 /\ c <= 70)
xvalue(c) == IF isdigit(c) THEN c - 48 ELSE IF c >= 97 THEN c - 87 ELSE c - 55

RECURSIVE skip_spaces(_, _)
skip_spaces(s, p) == IF CharAt(s, p) = 32 THEN skip_spaces(s, p + 1) ELSE p

\* the run of digits of the given base from p: [val, end]
RECURSIVE scan_digits(_, _, _, _)
scan_digits(s, p, base, acc) ==
    LET c == CharAt(s, p)
        ok == IF base = 10 THEN isdigit(c) ELSE isxdigit(c)
    IN IF ok THEN scan_digits(s, p + 1, base, acc * base + xvalue(c))
       ELSE [val |-> acc, end |-> p]

\* strtol(s + p, &end, 10): [val, end], end = p when no digits were found
strtol10(s, p) ==
    LET q == skip_spaces(s, p)
        neg == CharAt(s, q) = 45
        q1 == IF CharAt(s, q) \in {43, 45} THEN q + 1 ELSE q
        r == scan_digits(s, q1, 10, 0)
    IN IF r.end = q1 THEN [val |-> 0, end |-> p]
       ELSE [val |-> IF neg THEN -r.val ELSE r.val, end |-> r.end]

\* one %x conversion of sscanf from p: [ok, val (as Uint8), end]
scan_hex(s, p) ==
    LET q == skip_spaces(s, p)
        neg == CharAt(s, q) = 45
        q1 == IF CharAt(s, q) \in {43, 45} THEN q + 1 ELSE q
        q2 == IF CharAt(s, q1) = 48 /\ CharAt(s, q1 + 1) \in {120, 88}
                 /\ isxdigit(CharAt(s, q1 + 2))
              THEN q1 + 2 ELSE q1
        r == scan_digits(s, q2, 16, 0)
    IN IF r.end = q2 THEN [ok |-> FALSE, val |-> 0, end |-> p]
       ELSE [ok |-> TRUE, val |-> IF neg THEN -r.val ELSE r.val, end |-> r.end]

\* sscanf(spec, "rgb:%x/%x/%x", &r, &g, &b) == 3, and the three values
scan_rgb(s, p) ==
    IF ~(CharAt(s, p) = 114 /\ CharAt(s, p + 1) = 103 /\ CharAt(s, p + 2) = 98
         /\ CharAt(s, p + 3) = 58)
    THEN [ok |-> FALSE]
    ELSE LET r == scan_hex(s, p + 4) IN
         IF ~r.ok \/ CharAt(s, r.end) # 47 THEN [ok |-> FALSE]
         ELSE LET g == scan_hex(s, r.end + 1) IN
              IF ~g.ok \/ CharAt(s, g.end) # 47 THEN [ok |-> FALSE]
              ELSE LET b == scan_hex(s, g.end + 1) IN
                   IF ~b.ok THEN [ok |-> FALSE]
                   ELSE [ok |-> TRUE, r |-> r.val, g |-> g.val, b |-> b.val]

\* the colour a spec string at 1-based position spec of s denotes
osc_colour(t, s, spec, color_index, rgb, hex) ==
    IF rgb.ok
    THEN [t EXCEPT !.colors[color_index] =
             <<Uint8(rgb.r), Uint8(rgb.g), Uint8(rgb.b), 255>>]
    ELSE IF CharAt(s, spec) = 35 /\ Len(s) - spec + 1 = 7 /\ hex.ok
    THEN [t EXCEPT !.colors[color_index] =
             <<Uint8(hex.val \div 65536), Uint8(hex.val \div 256),
               Uint8(hex.val), 255>>]
    ELSE t

osc_copy_xterm(t, color_index) ==
    [t EXCEPT !.xterm_colors[color_index] = t.colors[color_index]]

osc_set_colour(t, s, n) ==
    IF n.end = 3 \/ CharAt(s, n.end) # 59 THEN t
    ELSE IF n.val < 0 \/ n.val > 15 THEN t
    ELSE osc_copy_xterm(
            osc_colour(t, s, n.end + 1, n.val,
                       scan_rgb(s, n.end + 1), scan_hex(s, n.end + 2)),
            n.val)

osc_parse(t, s) ==
    IF ~(CharAt(s, 1) = 52 /\ CharAt(s, 2) = 59) THEN t
    ELSE osc_set_colour(t, s, strtol10(s, 3))

handle_osc(t) == osc_parse(t, SubSeq(t.osc_buffer, 1, t.osc_len))

-----------------------------------------------------------------------------
(* The byte parser *)

\* ESC # 8: every cell of the current screen becomes 'E' in the default colours
fill_screen_E(t) ==
    LET row == [x \in 0..(t.cols - 1) |-> Glyph(69, t.default_fg, t.default_bg, 0)]
    IN IF t.alt_screen_active
       THEN (IF t.alt_grid # NULL
             THEN [t EXCEPT !.alt_grid = [y \in 0..(t.rows - 1) |-> row]]
             ELSE t)
       ELSE [t EXCEPT !.grid =
                [l \in 0..(t.total_lines - 1) |->
                    IF \E y \in 0..(t.rows - 1) :
                          l = (t.top_line + y) % t.total_lines
                    THEN row ELSE t.grid[l]]]

\* one pass of the switch for the byte at 0-based index i of buf: the terminal
\* and the value of i at the end of the loop body (before the loop's ++i)
\* utf8_codepoint taken as the low six bits of the continuation byte alone
utf8_low_bits(cp, c) == c % 64

\* (cp << 6) | (c & 0x3F); with at most three continuation bytes after a seed
\* of at most five bits the uint32_t never wraps
utf8_accumulate(cp, c) == cp * 64 + (c % 64)

normal_byte(t, c, i) ==
    IF t.utf8_bytes_to_read > 0
    THEN IF (c \div 64) = 2
         THEN LET t1 == [t EXCEPT
                           !.utf8_codepoint = utf8_accumulate(t.utf8_codepoint, c),
                           !.utf8_bytes_to_read = t.utf8_bytes_to_read - 1]
              IN [t |-> IF t1.utf8_bytes_to_read = 0
                        THEN terminal_put_char(t1, t1.utf8_codepoint)
                        ELSE t1,
                  i |-> i]
         ELSE [t |-> [t EXCEPT !.utf8_bytes_to_read = 0], i |-> i - 1]
    ELSE IF c < 128
    THEN [i |-> i,
          t |-> CASE c = ESC -> [t EXCEPT !.parse_state = STATE_ESCAPE]
                  [] c = 14 -> [t EXCEPT !.active_charset = 1]
                  [] c = 15 -> [t EXCEPT !.active_charset = 0]
                  [] c = 10 -> terminal_newline(t)
                  [] c = 13 -> [t EXCEPT !.cursor_x = 0]
                  [] c = 8 -> [t EXCEPT !.cursor_x = SDL_max(0, t.cursor_x - 1)]
                  [] c = 9 ->
                       LET t1 == [t EXCEPT !.cursor_x = ((t.cursor_x + 8) \div 8) * 8]
                       IN IF t1.cursor_x >= t1.cols
                          THEN terminal_newline([t1 EXCEPT !.cursor_x = 0])
                          ELSE t1
                  [] OTHER -> IF c >= 32 THEN terminal_put_char(t, c) ELSE t]
    ELSE IF (c \div 32) = 6
    THEN [t |-> [t EXCEPT !.utf8_bytes_to_read = 1, !.utf8_codepoint = c % 32], i |-> i]
    ELSE IF (c \div 16) = 14
    THEN [t |-> [t EXCEPT !.utf8_bytes_to_read = 2, !.utf8_codepoint = c % 16], i |-> i]
    ELSE IF (c \div 8) = 30
    THEN [t |-> [t EXCEPT !.utf8_bytes_to_read = 3, !.utf8_codepoint = c % 8], i |-> i]
    ELSE [t |-> t, i |-> i]

escape_byte(t0, c, buf, i) ==
    LET t == [t0 EXCEPT !.utf8_bytes_to_read = 0]
        len == Len(buf)
        toNormal(u) == [u EXCEPT !.parse_state = STATE_NORMAL]
    IN
    CASE c = ESC -> [t |-> t, i |-> i]
      [] c = 91 ->
           [t |-> [t EXCEPT !.parse_state = STATE_CSI,
                            !.csi_param_count = 0,
                            !.csi_private_marker = 0,
                            !.csi_intermediate_count = 0,
                            !.csi_intermediate_chars = <<>>,
                            !.csi_params = [k \in 0..(CSI_MAX_PARAMS - 1) |-> 0]],
            i |-> i]
      [] c = 40 \/ c = 41 ->
           IF i + 1 < len
           THEN LET charset_id == buf[i + 2]
                    charset_idx == IF c = 41 THEN 1 ELSE 0
                IN [t |-> toNormal(IF charset_id = 66 \/ charset_id = 48
                                   THEN [t EXCEPT !.charsets[charset_idx] = charset_id]
                                   ELSE t),
                    i |-> i + 1]
           ELSE [t |-> toNormal(t), i |-> i]
      [] c = 55 ->
           [t |-> toNormal([t EXCEPT !.saved_cursor_x = t.cursor_x,
                                     !.saved_cursor_y = t.cursor_y]),
            i |-> i]
      [] c = 56 ->
           [t |-> toNormal([t EXCEPT !.cursor_x = t.saved_cursor_x,
                                     !.cursor_y = t.saved_cursor_y]),
            i |-> i]
      [] c = 35 ->
           IF i + 1 < len /\ buf[i + 2] = 56
           THEN [t |-> toNormal([fill_screen_E(t) EXCEPT !.full_redraw_needed = TRUE]),
                 i |-> i + 1]
           ELSE [t |-> toNormal(t), i |-> i]
      [] c = 80 -> [t |-> [t EXCEPT !.parse_state = STATE_DCS], i |-> i]
      [] c = 92 -> [t |-> toNormal(t), i |-> i]
      [] c = 60 -> [t |-> toNormal(t), i |-> i]
      [] c = 93 -> [t |-> [t EXCEPT !.parse_state = STATE_OSC, !.osc_len = 0,
                                    !.osc_buffer = <<>>],
                    i |-> i]
      [] c = 68 -> [t |-> toNormal(terminal_newline(t)), i |-> i]
      [] c = 77 ->
           LET t1 == [t EXCEPT !.cursor_y = t.cursor_y - 1]
               t2 == IF t1.cursor_y < t1.scroll_top - 1
                     THEN terminal_scroll_region(
                              [t1 EXCEPT !.cursor_y = t1.scroll_top - 1],
                              t1.scroll_top - 1, t1.scroll_bottom - 1, -1)
                     ELSE t1
           IN [t |-> toNormal(t2), i |-> i]
      [] c = 61 -> [t |-> toNormal([t EXCEPT !.application_keypad_mode = TRUE]), i |-> i]
      [] c = 62 -> [t |-> toNormal([t EXCEPT !.application_keypad_mode = FALSE]), i |-> i]
      [] c = 99 -> [t |-> terminal_reset(t), i |-> i]
      [] OTHER -> [t |-> toNormal(t), i |-> i]

\* osc_byte that stores every printable byte, full buffer or not
osc_byte_unbounded(t0, c, i) ==
    LET t == [t0 EXCEPT !.utf8_bytes_to_read = 0] IN
    IF c = BEL \/ c = ESC
    THEN [t |-> [handle_osc(t) EXCEPT
                   !.parse_state = IF c = BEL THEN STATE_NORMAL ELSE STATE_ESCAPE],
          i |-> i]
    ELSE IF isprint(c) \/ c = 59
    THEN [t |-> [t EXCEPT !.osc_buffer = Append(SubSeq(@, 1, t.osc_len), c),
                          !.osc_len = t.osc_len + 1],
          i |-> i]
    ELSE [t |-> [t EXCEPT !.parse_state = STATE_NORMAL], i |-> i]

osc_byte(t0, c, i) ==
    LET t == [t0 EXCEPT !.utf8_bytes_to_read = 0] IN
    IF c = BEL \/ c = ESC
    THEN [t |-> [handle_osc(t) EXCEPT
                   !.parse_state = IF c = BEL THEN STATE_NORMAL ELSE STATE_ESCAPE],
          i |-> i]
    ELSE IF isprint(c) \/ c = 59
    THEN [t |-> IF t.osc_len < OSC_BUFFER_SIZE - 1
                THEN [t EXCEPT !.osc_buffer = Append(SubSeq(@, 1, t.osc_len), c),
                               !.osc_len = t.osc_len + 1]
                ELSE t,
          i |-> i]
    ELSE [t |-> [t EXCEPT !.parse_state = STATE_NORMAL], i |-> i]

dcs_byte(t, c, i) ==
    [t |-> IF c = ESC THEN [t EXCEPT !.parse_state = STATE_ESCAPE] ELSE t, i |-> i]

csi_byte(t0, c, i) ==
    LET t == [t0 EXCEPT !.utf8_bytes_to_read = 0]
        \* if (term->csi_param_count == 0) term->csi_param_count = 1;
        t1 == IF t.csi_param_count = 0 THEN [t EXCEPT !.csi_param_count = 1] ELSE t
    IN
    IF c = ESC THEN [t |-> [t EXCEPT !.parse_state = STATE_ESCAPE], i |-> i]
    ELSE IF isdigit(c)
    THEN [t |-> IF t1.csi_param_count > 0 /\ t1.csi_param_count <= CSI_MAX_PARAMS
                THEN [t1 EXCEPT !.csi_params[t1.csi_param_count - 1] =
                                    @ * 10 + (c - 48)]
                ELSE t1,
          i |-> i]
    ELSE IF c = 59
    THEN [t |-> IF t1.csi_param_count < CSI_MAX_PARAMS
                THEN [t1 EXCEPT !.csi_param_count = t1.csi_param_count + 1,
                                !.csi_params[t1.csi_param_count] = 0]
                ELSE t1,
          i |-> i]
    ELSE IF c >= 60 /\ c <= 63
    THEN [t |-> [t EXCEPT !.csi_private_marker = c], i |-> i]
    ELSE IF c >= 32 /\ c <= 47
    THEN [t |-> IF t.csi_intermediate_count < CSI_INTERMEDIATE_SIZE - 1
                THEN [t EXCEPT !.csi_intermediate_chars = Append(@, c),
                               !.csi_intermediate_count = @ + 1]
                ELSE t,
          i |-> i]
    ELSE IF c >= 64 /\ c <= 126
    THEN [t |-> [handle_csi(t1, c) EXCEPT !.parse_state = STATE_NORMAL], i |-> i]
    ELSE [t |-> [t EXCEPT !.parse_state = STATE_NORMAL], i |-> i - 1]

process_byte(t, buf, i) ==
    LET c == buf[i + 1] IN
    CASE t.parse_state = STATE_NORMAL -> normal_byte(t, c, i)
      [] t.parse_state = STATE_ESCAPE -> escape_byte(t, c, buf, i)
      [] t.parse_state = STATE_OSC -> osc_byte(t, c, i)
      [] t.parse_state = STATE_DCS -> dcs_byte(t, c, i)
      [] t.parse_state = STATE_CSI -> csi_byte(t, c, i)

\* for (size_t i = 0; i < len; ++i) { ... }
RECURSIVE handle_input_loop(_, _, _)
\* the loop's ++i after a pass that ended with the terminal r.t and index r.i
handle_input_next(r, buf) == handle_input_loop(r.t, buf, r.i + 1)

handle_input_loop(t, buf, i) ==
    IF i >= Len(buf) THEN t
    ELSE handle_input_next(process_byte(t, buf, i), buf)

terminal_handle_input(t, buf) == handle_input_loop(t, buf, 0)

-----------------------------------------------------------------------------
(* The on-screen keyboard (osk.c, input.c).  The key and set arrays grow and
   shrink, so they are sequences: element i of the code is element i + 1. *)

OSK_MODE_CHARS == 0
OSK_MODE_SPECIAL == 1

OSK_MOD_NONE == 0
OSK_MOD_SHIFT == 1
OSK_MOD_CTRL == 2
OSK_MOD_ALT == 4
OSK_MOD_GUI == 8

\* an SDL_Keymod value is the set of the modifiers in it
KMOD_NONE == {}

\* the OSK_MOD_ bits set in the mask m
MaskBits(m) == {b \in {1, 2, 4, 8} : (m \div b) % 2 = 1}

SpecialKey(display_name, type, sequence, keycode, mod, command) ==
    [display_name |-> display_name, type |-> type, sequence |-> sequence,
     keycode |-> keycode, mod |-> mod, command |-> command]

\* A C string is the sequence of its characters and the terminating NUL; a
\* name is a sequence of pieces of text
NUL == "NUL"
Str(chars) == chars \o <<NUL>>

osk_special_set_action_keys ==
    << SpecialKey(<<"OSK Pos">>, "SK_INTERNAL_CMD", NULL, "SDLK_UNKNOWN", KMOD_NONE,
                  "CMD_OSK_TOGGLE_POSITION"),
       SpecialKey(<<"Ctrl">>, "SK_MOD_CTRL", NULL, "SDLK_LCTRL", KMOD_NONE, "CMD_NONE"),
       SpecialKey(<<"Alt">>, "SK_MOD_ALT", NULL, "SDLK_LALT", KMOD_NONE, "CMD_NONE"),
       SpecialKey(<<"GUI">>, "SK_MOD_GUI", NULL, "SDLK_LGUI", KMOD_NONE, "CMD_NONE"),
       SpecialKey(<<"Esc">>, "SK_SEQUENCE", Str(<<"\\x1b">>), "SDLK_ESCAPE",
                  KMOD_NONE, "CMD_NONE"),
       SpecialKey(<<"Tab">>, "SK_SEQUENCE", Str(<<"\t">>), "SDLK_TAB", KMOD_NONE,
                  "CMD_NONE"),
       SpecialKey(<<"Enter">>, "SK_SEQUENCE", Str(<<"\r">>), "SDLK_RETURN", KMOD_NONE,
                  "CMD_NONE"),
       SpecialKey(<<"Space">>, "SK_SEQUENCE", Str(<<" ">>), "SDLK_SPACE", KMOD_NONE,
                  "CMD_NONE"),
       SpecialKey(<<"Bksp">>, "SK_SEQUENCE", Str(<<"\\b">>), "SDLK_BACKSPACE",
                  KMOD_NONE, "CMD_NONE"),
       SpecialKey(<<"Del">>, "SK_SEQUENCE", Str(<<"\\x1b", "[", "3", "~">>),
                  "SDLK_DELETE", KMOD_NONE, "CMD_NONE"),
       SpecialKey(<<"Shift">>, "SK_MOD_SHIFT", NULL, "SDLK_LSHIFT", KMOD_NONE,
                  "CMD_NONE") >>

\* a row of a character layer; length -1 marks the whole-row {DEFAULT}
LayoutRow(keys) == [length |-> Len(keys), keys |-> keys]
DefaultMarkerRow == [length |-> -1, keys |-> <<>>]

get_physical_modifier_mask(o) ==
    (IF o.held_shift THEN OSK_MOD_SHIFT ELSE 0)
    + (IF o.held_ctrl THEN OSK_MOD_CTRL ELSE 0)
    + (IF o.held_alt THEN OSK_MOD_ALT ELSE 0)
    + (IF o.held_gui THEN OSK_MOD_GUI ELSE 0)

\* num_char_rows_by_modifier[mask]
num_char_rows_by_modifier(o, mask) ==
    IF o.char_sets_by_modifier[mask] = NULL THEN 0
    ELSE Len(o.char_sets_by_modifier[mask])

\* layers mask has a row at set_idx
HasRow(o, mask, set_idx) ==
    /\ o.char_sets_by_modifier[mask] # NULL
    /\ set_idx < num_char_rows_by_modifier(o, mask)

\* &o->char_sets_by_modifier[mask][set_idx] and what it points at
RowPtr(mask, set_idx) == [mask |-> mask, set_idx |-> set_idx]
RowAt(o, p) == o.char_sets_by_modifier[p.mask][p.set_idx + 1]

\* the fallback after the loop of osk_get_effective_row_ptr
default_row_ptr(o, set_idx) ==
    IF HasRow(o, OSK_MOD_NONE, set_idx)
       /\ RowAt(o, RowPtr(OSK_MOD_NONE, set_idx)).length # -1
    THEN RowPtr(OSK_MOD_NONE, set_idx)
    ELSE NULL

\* the loop of osk_get_effective_row_ptr that passes over a {DEFAULT} row
\* and goes on to the next smaller subset
RECURSIVE effective_row_scan_on(_, _, _, _)
effective_row_scan_on(o, set_idx, target_mask, mask_iter) ==
    IF mask_iter < 0 THEN default_row_ptr(o, set_idx)
    ELSE IF MaskBits(mask_iter) \subseteq MaskBits(target_mask)
            /\ HasRow(o, mask_iter, set_idx)
            /\ RowAt(o, RowPtr(mask_iter, set_idx)).length # -1
         THEN RowPtr(mask_iter, set_idx)
         ELSE effective_row_scan_on(o, set_idx, target_mask, mask_iter - 1)

\* the loop of osk_get_effective_row_ptr from mask_iter down
RECURSIVE effective_row_scan(_, _, _, _)
effective_row_scan(o, set_idx, target_mask, mask_iter) ==
    IF mask_iter < 0 THEN default_row_ptr(o, set_idx)
    ELSE IF MaskBits(mask_iter) \subseteq MaskBits(target_mask)
            /\ HasRow(o, mask_iter, set_idx)
         THEN IF RowAt(o, RowPtr(mask_iter, set_idx)).length = -1
              THEN default_row_ptr(o, set_idx)
              ELSE RowPtr(mask_iter, set_idx)
         ELSE effective_row_scan(o, set_idx, target_mask, mask_iter - 1)

osk_get_effective_row_ptr(o, set_idx) ==
    effective_row_scan(o, set_idx, get_physical_modifier_mask(o),
                       get_physical_modifier_mask(o))

RECURSIVE current_num_rows_scan(_, _, _)
current_num_rows_scan(o, target_mask, mask_iter) ==
    IF mask_iter < 0 THEN 0
    ELSE IF MaskBits(mask_iter) \subseteq MaskBits(target_mask)
            /\ o.char_sets_by_modifier[mask_iter] # NULL
         THEN num_char_rows_by_modifier(o, mask_iter)
         ELSE current_num_rows_scan(o, target_mask, mask_iter - 1)

get_current_num_char_rows(o) ==
    current_num_rows_scan(o, get_physical_modifier_mask(o),
                          get_physical_modifier_mask(o))

\* the row test of osk_validate_row_index in character mode
chars_row_invalid(o, row) ==
    \/ row = NULL
    \/ RowAt(o, row).length > 0 /\ o.char_idx >= RowAt(o, row).length
    \/ RowAt(o, row).length = 0 /\ o.char_idx # 0

osk_validate_row_index(o) ==
    LET reset_to_zero ==
          IF o.mode = OSK_MODE_CHARS
          THEN \/ get_current_num_char_rows(o) = 0
               \/ o.set_idx >= get_current_num_char_rows(o)
               \/ chars_row_invalid(o, osk_get_effective_row_ptr(o, o.set_idx))
          ELSE \/ Len(o.all_special_sets) = 0
               \/ o.set_idx >= Len(o.all_special_sets)
               \/ o.all_special_sets[o.set_idx + 1].length = 0
               \/ o.char_idx >= o.all_special_sets[o.set_idx + 1].length
    IN IF reset_to_zero THEN [o EXCEPT !.set_idx = 0, !.char_idx = 0] ELSE o

\* &row->keys[char_idx] of a layer row, and what it points at
KeyPtr(mask, set_idx, char_idx) ==
    [mask |-> mask, set_idx |-> set_idx, char_idx |-> char_idx]
KeyAt(o, k) == RowAt(o, k).keys[k.char_idx + 1]

\* the {N/A} key: an SK_STRING whose sequence is the empty string
is_na_key(key) ==
    key.type = "SK_STRING" /\ key.sequence # NULL /\ key.sequence[1] = NUL

\* step 1 of osk_get_effective_char_ptr: the key of the [default] layer
default_key_ptr(o, set_idx, char_idx) ==
    IF HasRow(o, OSK_MOD_NONE, set_idx)
       /\ RowAt(o, RowPtr(OSK_MOD_NONE, set_idx)).length # -1
       /\ char_idx >= 0
       /\ char_idx < RowAt(o, RowPtr(OSK_MOD_NONE, set_idx)).length
    THEN KeyPtr(OSK_MOD_NONE, set_idx, char_idx)
    ELSE NULL

\* specific_key_ptr that returns the {N/A} key as it is
specific_key_ptr_na(o, row, char_idx) ==
    IF RowAt(o, row).length = -1
    THEN default_key_ptr(o, row.set_idx, char_idx)
    ELSE IF char_idx < 0 \/ char_idx >= RowAt(o, row).length THEN NULL
    ELSE KeyPtr(row.mask, row.set_idx, char_idx)

\* the key osk_get_effective_char_ptr takes from the row it found
specific_key_ptr(o, row, char_idx) ==
    IF RowAt(o, row).length = -1
    THEN default_key_ptr(o, row.set_idx, char_idx)
    ELSE IF char_idx < 0 \/ char_idx >= RowAt(o, row).length THEN NULL
    ELSE IF is_na_key(KeyAt(o, KeyPtr(row.mask, row.set_idx, char_idx)))
    THEN default_key_ptr(o, row.set_idx, char_idx)
    ELSE KeyPtr(row.mask, row.set_idx, char_idx)

\* step 2 of osk_get_effective_char_ptr from mask_iter down
RECURSIVE effective_char_scan(_, _, _, _, _)
effective_char_scan(o, set_idx, char_idx, target_mask, mask_iter) ==
    IF mask_iter < 0 THEN default_key_ptr(o, set_idx, char_idx)
    ELSE IF MaskBits(mask_iter) \subseteq MaskBits(target_mask)
            /\ HasRow(o, mask_iter, set_idx)
         THEN specific_key_ptr(o, RowPtr(mask_iter, set_idx), char_idx)
         ELSE effective_char_scan(o, set_idx, char_idx, target_mask,
                                  mask_iter - 1)

osk_get_effective_char_ptr(o, set_idx, char_idx) ==
    effective_char_scan(o, set_idx, char_idx, get_physical_modifier_mask(o),
                        get_physical_modifier_mask(o))

\* s_layout_tokens, each token as its characters
LayoutToken(token, type, keycode) ==
    [token |-> <<"{">> \o token \o <<"}">>, type |-> type, keycode |-> keycode]

s_layout_tokens ==
    << LayoutToken(<<"E", "N", "T", "E", "R">>, "SK_SEQUENCE", "SDLK_RETURN"),
       LayoutToken(<<"S", "P", "A", "C", "E">>, "SK_SEQUENCE", "SDLK_SPACE"),
       LayoutToken(<<"S", "H", "I", "F", "T">>, "SK_MOD_SHIFT", "SDLK_LSHIFT"),
       LayoutToken(<<"D", "E", "F", "A", "U", "L", "T">>, "SK_STRING", "SDLK_UNKNOWN"),
       LayoutToken(<<"R", "I", "G", "H", "T">>, "SK_SEQUENCE", "SDLK_RIGHT"),
       LayoutToken(<<"P", "G", "U", "P">>, "SK_SEQUENCE", "SDLK_PAGEUP"),
       LayoutToken(<<"P", "G", "D", "N">>, "SK_SEQUENCE", "SDLK_PAGEDOWN"),
       LayoutToken(<<"C", "T", "R", "L">>, "SK_MOD_CTRL", "SDLK_LCTRL"),
       LayoutToken(<<"L", "E", "F", "T">>, "SK_SEQUENCE", "SDLK_LEFT"),
       LayoutToken(<<"H", "O", "M", "E">>, "SK_SEQUENCE", "SDLK_HOME"),
       LayoutToken(<<"D", "O", "W", "N">>, "SK_SEQUENCE", "SDLK_DOWN"),
       LayoutToken(<<"F", "1", "0">>, "SK_SEQUENCE", "SDLK_F10"),
       LayoutToken(<<"F", "1", "1">>, "SK_SEQUENCE", "SDLK_F11"),
       LayoutToken(<<"F", "1", "2">>, "SK_SEQUENCE", "SDLK_F12"),
       LayoutToken(<<"N", "/", "A">>, "SK_STRING", "SDLK_UNKNOWN"),
       LayoutToken(<<"E", "S", "C">>, "SK_SEQUENCE", "SDLK_ESCAPE"),
       LayoutToken(<<"T", "A", "B">>, "SK_SEQUENCE", "SDLK_TAB"),
       LayoutToken(<<"E", "N", "D">>, "SK_SEQUENCE", "SDLK_END"),
       LayoutToken(<<"I", "N", "S">>, "SK_SEQUENCE", "SDLK_INSERT"),
       LayoutToken(<<"D", "E", "L">>, "SK_SEQUENCE", "SDLK_DELETE"),
       LayoutToken(<<"A", "L", "T">>, "SK_MOD_ALT", "SDLK_LALT"),
       LayoutToken(<<"G", "U", "I">>, "SK_MOD_GUI", "SDLK_LGUI"),
       LayoutToken(<<"U", "P">>, "SK_SEQUENCE", "SDLK_UP"),
       LayoutToken(<<"B", "S">>, "SK_SEQUENCE", "SDLK_BACKSPACE"),
       LayoutToken(<<"F", "1">>, "SK_SEQUENCE", "SDLK_F1"),
       LayoutToken(<<"F", "2">>, "SK_SEQUENCE", "SDLK_F2"),
       LayoutToken(<<"F", "3">>, "SK_SEQUENCE", "SDLK_F3"),
       LayoutToken(<<"F", "4">>, "SK_SEQUENCE", "SDLK_F4"),
       LayoutToken(<<"F", "5">>, "SK_SEQUENCE", "SDLK_F5"),
       LayoutToken(<<"F", "6">>, "SK_SEQUENCE", "SDLK_F6"),
       LayoutToken(<<"F", "7">>, "SK_SEQUENCE", "SDLK_F7"),
       LayoutToken(<<"F", "8">>, "SK_SEQUENCE", "SDLK_F8"),
       LayoutToken(<<"F", "9">>, "SK_SEQUENCE", "SDLK_F9") >>

\* strncmp(str + p, token, strlen(token)) == 0
TokenAt(str, p, token) ==
    /\ p + Len(token) <= Len(str)
    /\ SubSeq(str, p + 1, p + Len(token)) = token

\* osk_find_layout_token(str + p): the first token of the table that str has
\* at offset p, or NULL
osk_find_layout_token(str, p) ==
    IF \E t \in DOMAIN s_layout_tokens : TokenAt(str, p, s_layout_tokens[t].token)
    THEN s_layout_tokens[CHOOSE t \in DOMAIN s_layout_tokens :
            /\ TokenAt(str, p, s_layout_tokens[t].token)
            /\ \A u \in 1..(t - 1) : ~TokenAt(str, p, s_layout_tokens[u].token)]
    ELSE NULL

\* The input functions work on s = [osk, sent, cmd, ui_updated]: the keyboard,
\* what the action has handed to the PTY encoder so far, the InternalCommand
\* it returns and its *ui_updated flag.

send_key_event(s, sym, mod) ==
    [s EXCEPT !.sent = Append(@, [kind |-> "key", keycode |-> sym, mod |-> mod])]

\* the event holds the strlen(text) characters of the C string text
send_text_input_event(s, text) ==
    [s EXCEPT !.sent = Append(@, [kind |-> "text",
                                  text |-> SubSeq(text, 1, Len(text) - 1)])]

get_combined_modifiers(o) ==
    (IF o.mod_shift \/ o.held_shift THEN {"KMOD_SHIFT"} ELSE {})
    \cup (IF o.mod_ctrl \/ o.held_ctrl THEN {"KMOD_CTRL"} ELSE {})
    \cup (IF o.mod_alt \/ o.held_alt THEN {"KMOD_ALT"} ELSE {})
    \cup (IF o.mod_gui \/ o.held_gui THEN {"KMOD_GUI"} ELSE {})

clear_one_shot_modifiers(s) ==
    IF s.osk.mod_ctrl \/ s.osk.mod_alt \/ s.osk.mod_shift \/ s.osk.mod_gui
    THEN [s EXCEPT !.osk.mod_ctrl = FALSE, !.osk.mod_alt = FALSE,
                   !.osk.mod_shift = FALSE, !.osk.mod_gui = FALSE,
                   !.ui_updated = TRUE]
    ELSE s

\* the one-shot modifiers as an SDL_Keymod
OneShotMods(o) ==
    (IF o.mod_shift THEN {"KMOD_SHIFT"} ELSE {})
    \cup (IF o.mod_ctrl THEN {"KMOD_CTRL"} ELSE {})
    \cup (IF o.mod_alt THEN {"KMOD_ALT"} ELSE {})
    \cup (IF o.mod_gui THEN {"KMOD_GUI"} ELSE {})

\* the held modifiers as an SDL_Keymod
HeldMods(o) ==
    (IF o.held_shift THEN {"KMOD_SHIFT"} ELSE {})
    \cup (IF o.held_ctrl THEN {"KMOD_CTRL"} ELSE {})
    \cup (IF o.held_alt THEN {"KMOD_ALT"} ELSE {})
    \cup (IF o.held_gui THEN {"KMOD_GUI"} ELSE {})

\* get_effective_send_modifiers that always adds the held modifiers
send_modifiers_all_held(o) == OneShotMods(o) \cup HeldMods(o)

get_effective_send_modifiers(o) ==
    LET held_mask == get_physical_modifier_mask(o)
        layer_exists_for_held_keys ==
            held_mask # OSK_MOD_NONE /\ o.char_sets_by_modifier[held_mask] # NULL
    IN OneShotMods(o) \cup (IF ~layer_exists_for_held_keys THEN HeldMods(o) ELSE {})

\* the modifier tokens of execute_macro
macro_toggle(s, type) ==
    CASE type = "SK_MOD_CTRL" -> [s EXCEPT !.osk.mod_ctrl = ~@, !.ui_updated = TRUE]
      [] type = "SK_MOD_ALT" -> [s EXCEPT !.osk.mod_alt = ~@, !.ui_updated = TRUE]
      [] type = "SK_MOD_SHIFT" -> [s EXCEPT !.osk.mod_shift = ~@, !.ui_updated = TRUE]
      [] type = "SK_MOD_GUI" -> [s EXCEPT !.osk.mod_gui = ~@, !.ui_updated = TRUE]
      [] OTHER -> s

\* execute_macro: the segment before p is written if it is not empty
macro_flush(s, str, p, segment_start) ==
    IF p > segment_start
    THEN send_text_input_event(s, Str(SubSeq(str, segment_start + 1, p)))
    ELSE s

\* macro_token that sends the key without any modifier
macro_token_bare(s, token) ==
    IF token.type = "SK_SEQUENCE"
    THEN send_key_event(s, token.keycode, KMOD_NONE)
    ELSE macro_toggle(s, token.type)

\* execute_macro: the action of the token found at p
macro_token(s, token) ==
    IF token.type = "SK_SEQUENCE"
    THEN send_key_event(s, token.keycode, get_effective_send_modifiers(s.osk))
    ELSE macro_toggle(s, token.type)

\* A path is [dir, stem, ext]: the directories, the base name up to its last
\* dot, and the rest.  The set name is the base name without a final ".keys".
key_set_name(path) ==
    IF path.ext = ".keys" THEN <<path.stem>> ELSE <<path.stem, path.ext>>

is_dynamic_key_set_loaded(o, name) ==
    \E i \in DOMAIN o.loaded_key_set_names : o.loaded_key_set_names[i] = name

add_loaded_key_set_name(o, name) ==
    IF is_dynamic_key_set_loaded(o, name) THEN o
    ELSE [o EXCEPT !.loaded_key_set_names = Append(@, name)]

\* q without its element i
RemoveAt(q, i) == SubSeq(q, 1, i - 1) \o SubSeq(q, i + 1, Len(q))

remove_loaded_key_set_name(o, name) ==
    IF is_dynamic_key_set_loaded(o, name)
    THEN [o EXCEPT !.loaded_key_set_names =
            RemoveAt(@, CHOOSE i \in DOMAIN @ :
                          /\ @[i] = name
                          /\ \A j \in 1..(i - 1) : @[j] # name)]
    ELSE o

\* add_to_available_list returns true exactly when the path was not there
is_available(o, path) ==
    \E i \in DOMAIN o.available_dynamic_key_sets :
        o.available_dynamic_key_sets[i].file_path = path

add_to_available_list(o, path) ==
    IF is_available(o, path) THEN o
    ELSE [o EXCEPT !.available_dynamic_key_sets =
            Append(@, [name |-> key_set_name(path), file_path |-> path,
                       keys |-> <<>>, length |-> 0, is_dynamic |-> TRUE])]

\* dynamic_control_key that offers to load the set whether it is loaded or not
dynamic_control_key_load(o, set) ==
    SpecialKey(<<"+">> \o set.name, "SK_LOAD_FILE", set.file_path, "SDLK_UNKNOWN",
               KMOD_NONE, "CMD_NONE")

\* the +Name or -Name key of CONTROL for an available set
dynamic_control_key(o, set) ==
    IF is_dynamic_key_set_loaded(o, set.name)
    THEN SpecialKey(<<"-">> \o set.name, "SK_UNLOAD_FILE", set.name, "SDLK_UNKNOWN",
                    KMOD_NONE, "CMD_NONE")
    ELSE SpecialKey(<<"+">> \o set.name, "SK_LOAD_FILE", set.file_path, "SDLK_UNKNOWN",
                    KMOD_NONE, "CMD_NONE")

\* the keys osk_rebuild_control_set_dynamic_keys gives CONTROL
control_set_keys(o) ==
    osk_special_set_action_keys
    \o [i \in DOMAIN o.available_dynamic_key_sets |->
           dynamic_control_key(o, o.available_dynamic_key_sets[i])]

\* find_control_set: the index of the first set named CONTROL, 0 if none
find_control_set(o) ==
    IF \E i \in DOMAIN o.all_special_sets : o.all_special_sets[i].name = <<"CONTROL">>
    THEN CHOOSE i \in DOMAIN o.all_special_sets :
            /\ o.all_special_sets[i].name = <<"CONTROL">>
            /\ \A j \in 1..(i - 1) : o.all_special_sets[j].name # <<"CONTROL">>
    ELSE 0

osk_rebuild_control_set_dynamic_keys(o) ==
    IF find_control_set(o) = 0 THEN o
    ELSE [o EXCEPT !.all_special_sets[find_control_set(o)] =
            [@ EXCEPT !.keys = control_set_keys(o),
                      !.length = Len(control_set_keys(o))]]

osk_make_set_available(o, path) ==
    IF ~is_available(o, path)
    THEN osk_rebuild_control_set_dynamic_keys(add_to_available_list(o, path))
    ELSE o

osk_init_all_sets(o) ==
    osk_rebuild_control_set_dynamic_keys(
        [o EXCEPT !.all_special_sets =
            << [name |-> <<"CONTROL">>, keys |-> <<>>, length |-> 0,
                is_dynamic |-> TRUE, file_path |-> NULL] >>])

\* a dynamic set called name is among the loaded sets after CONTROL
is_set_loaded(o, name) ==
    \E i \in 2..Len(o.all_special_sets) :
        o.all_special_sets[i].is_dynamic /\ o.all_special_sets[i].name = name

\* osk_add_custom_set once the file was read and has keys
append_custom_set(o, path, keys) ==
    osk_rebuild_control_set_dynamic_keys(
        add_loaded_key_set_name(
            [o EXCEPT !.all_special_sets =
                Append(@, [name |-> key_set_name(path), keys |-> keys,
                           length |-> Len(keys), is_dynamic |-> TRUE,
                           file_path |-> path])],
            key_set_name(path)))

\* osk_add_custom_set; file is what fopen finds at path: whether the file can
\* be opened and the keys its lines parse to
add_custom_set_file(o, path, file) ==
    IF ~file.exists THEN o
    ELSE IF is_set_loaded(o, key_set_name(path)) THEN o
    ELSE IF Len(file.keys) > 0 THEN append_custom_set(o, path, file.keys)
    ELSE o

osk_add_custom_set(o, path, file) ==
    add_custom_set_file(add_to_available_list(o, path), path, file)

\* osk_remove_custom_set once the set was found at index found_idx
remove_custom_set_at(o, name, found_idx) ==
    osk_rebuild_control_set_dynamic_keys(
        remove_loaded_key_set_name(
            [o EXCEPT !.all_special_sets = RemoveAt(@, found_idx)], name))

\* the trailing set_idx repair of osk_remove_custom_set
remove_fix_set_idx(o) ==
    IF o.set_idx >= Len(o.all_special_sets)
    THEN [o EXCEPT !.set_idx = IF Len(o.all_special_sets) > 0
                                THEN Len(o.all_special_sets) - 1 ELSE 0,
                   !.char_idx = 0]
    ELSE o

osk_remove_custom_set(o, name) ==
    IF is_set_loaded(o, name)
    THEN remove_fix_set_idx(
            remove_custom_set_at(o, name,
                CHOOSE i \in 2..Len(o.all_special_sets) :
                    /\ o.all_special_sets[i].is_dynamic
                    /\ o.all_special_sets[i].name = name
                    /\ \A j \in 2..(i - 1) :
                          ~(o.all_special_sets[j].is_dynamic
                            /\ o.all_special_sets[j].name = name)))
    ELSE o

\* execute_macro from offset p on; segment_start is the start of the text not
\* yet written and consumed_one_shot whether a key token was sent
RECURSIVE macro_scan(_, _, _, _, _)
\* the token found at p is acted on and the scan goes on behind it
macro_scan_token(s, str, p, token, consumed_one_shot) ==
    macro_scan(macro_token(s, token), str, p + Len(token.token),
               p + Len(token.token),
               consumed_one_shot \/ token.type = "SK_SEQUENCE")

macro_scan(s, str, p, segment_start, consumed_one_shot) ==
    IF str[p + 1] = NUL
    THEN IF consumed_one_shot
         THEN clear_one_shot_modifiers(macro_flush(s, str, p, segment_start))
         ELSE macro_flush(s, str, p, segment_start)
    ELSE IF str[p + 1] = "\\" /\ str[p + 2] = "{"
    THEN macro_scan(
            send_text_input_event(macro_flush(s, str, p, segment_start),
                                  Str(<<"{">>)),
            str, p + 2, p + 2, consumed_one_shot)
    ELSE IF str[p + 1] = "{" /\ osk_find_layout_token(str, p) # NULL
    THEN macro_scan_token(macro_flush(s, str, p, segment_start), str, p,
                          osk_find_layout_token(str, p), consumed_one_shot)
    ELSE macro_scan(s, str, p + 1, segment_start, consumed_one_shot)

execute_macro(s, macro_string) == macro_scan(s, macro_string, 0, 0, FALSE)

\* the switch of osk_handle_key_selection; env.disk gives for each path what
\* fopen finds there
key_selection_switch(s, key, env) ==
    CASE key.type = "SK_STRING" ->
           IF key.sequence # NULL THEN send_text_input_event(s, key.sequence) ELSE s
      [] key.type = "SK_MACRO" ->
           IF key.sequence # NULL THEN execute_macro(s, key.sequence) ELSE s
      [] key.type = "SK_LOAD_FILE" ->
           IF key.sequence # NULL
           THEN [s EXCEPT !.osk = osk_add_custom_set(@, key.sequence, env.disk[key.sequence]),
                          !.ui_updated = TRUE]
           ELSE s
      [] key.type = "SK_UNLOAD_FILE" ->
           IF key.sequence # NULL
           THEN [s EXCEPT !.osk = osk_remove_custom_set(@, key.sequence),
                          !.ui_updated = TRUE]
           ELSE s
      [] key.type = "SK_SEQUENCE" ->
           send_key_event(s, key.keycode,
                          get_effective_send_modifiers(s.osk) \cup key.mod)
      [] key.type = "SK_MOD_CTRL" ->
           [s EXCEPT !.osk.mod_ctrl = ~@, !.ui_updated = TRUE]
      [] key.type = "SK_MOD_ALT" ->
           [s EXCEPT !.osk.mod_alt = ~@, !.ui_updated = TRUE]
      [] key.type = "SK_MOD_SHIFT" ->
           [s EXCEPT !.osk.mod_shift = ~@, !.ui_updated = TRUE]
      [] key.type = "SK_MOD_GUI" ->
           [s EXCEPT !.osk.mod_gui = ~@, !.ui_updated = TRUE]
      [] key.type = "SK_INTERNAL_CMD" -> [s EXCEPT !.cmd = key.command]

is_modifier_key(key) ==
    key.type \in {"SK_MOD_CTRL", "SK_MOD_ALT", "SK_MOD_SHIFT", "SK_MOD_GUI"}

\* The selected key lies in the keys of CONTROL and the switch has rebuilt
\* them: osk_rebuild_control_set_dynamic_keys has freed the array key points
\* into.
key_freed(s, after, key) ==
    /\ key.type \in {"SK_LOAD_FILE", "SK_UNLOAD_FILE"}
    /\ s.osk.mode = OSK_MODE_SPECIAL
    /\ s.osk.set_idx + 1 = find_control_set(s.osk)
    /\ Len(after.osk.all_special_sets) # Len(s.osk.all_special_sets)

\* key->type as osk_handle_key_selection reads it after the switch: the read
\* of a freed key yields env.freed_type
type_after_switch(s, after, key, env) ==
    IF key_freed(s, after, key) THEN env.freed_type ELSE key.type

\* the test and clearing after the switch of osk_handle_key_selection
clear_after_switch(s, after, key, env) ==
    IF ~is_modifier_key(key) /\ type_after_switch(s, after, key, env) # "SK_MACRO"
    THEN clear_one_shot_modifiers(after)
    ELSE after

osk_handle_key_selection(s, key, env) ==
    clear_after_switch(s, key_selection_switch(s, key, env), key, env)

\* osk_validate_row_index on the keyboard of s
validated(s) == [s EXCEPT !.osk = osk_validate_row_index(@)]

\* ACTION_SELECT: the indices are validated if the selection updated the UI
selected(s) == IF s.ui_updated THEN validated(s) ELSE s

\* ACTION_BACK, ACTION_SPACE, ACTION_TAB and ACTION_ENTER while the OSK is
\* active, the same in both modes
osk_plain_key_action(s, action) ==
    CASE action = "ACTION_BACK" -> send_key_event(s, "SDLK_BACKSPACE", KMOD_NONE)
      [] action = "ACTION_SPACE" -> send_text_input_event(s, Str(<<" ">>))
      [] action = "ACTION_TAB" -> send_key_event(s, "SDLK_TAB", KMOD_NONE)
      [] action = "ACTION_ENTER" -> send_key_event(s, "SDLK_RETURN", KMOD_NONE)
      [] OTHER -> s

\* the switch of process_osk_chars_action on a row with num_chars keys in a
\* layer of num_rows rows
chars_action_switch(s, action, env, num_rows, num_chars) ==
    CASE action = "ACTION_UP" ->
           validated([s EXCEPT !.osk.set_idx = IF @ = 0 THEN num_rows - 1 ELSE @ - 1,
                               !.osk.char_idx = 0])
      [] action = "ACTION_DOWN" ->
           validated([s EXCEPT !.osk.set_idx = (@ + 1) % num_rows,
                               !.osk.char_idx = 0])
      [] action = "ACTION_LEFT" ->
           validated([s EXCEPT !.osk.char_idx =
                                   IF @ = 0 THEN num_chars - 1 ELSE @ - 1])
      [] action = "ACTION_RIGHT" ->
           validated([s EXCEPT !.osk.char_idx = (@ + 1) % num_chars])
      [] action = "ACTION_SELECT" ->
           IF osk_get_effective_char_ptr(s.osk, s.osk.set_idx, s.osk.char_idx) # NULL
           THEN selected(osk_handle_key_selection(s,
                    KeyAt(s.osk, osk_get_effective_char_ptr(
                                     s.osk, s.osk.set_idx, s.osk.char_idx)),
                    env))
           ELSE s
      [] OTHER -> osk_plain_key_action(s, action)

process_osk_chars_action(s, action, env) ==
    IF osk_get_effective_row_ptr(s.osk, s.osk.set_idx) = NULL THEN s
    ELSE IF get_current_num_char_rows(s.osk) = 0 THEN s
    ELSE IF RowAt(s.osk, osk_get_effective_row_ptr(s.osk, s.osk.set_idx)).length = 0
    THEN s
    ELSE chars_action_switch(s, action, env, get_current_num_char_rows(s.osk),
            RowAt(s.osk, osk_get_effective_row_ptr(s.osk, s.osk.set_idx)).length)

\* the switch of process_osk_special_action on a set of set_len keys
special_action_switch(s, action, env, set_len) ==
    CASE action = "ACTION_UP" ->
           validated([s EXCEPT !.osk.set_idx =
                                   IF @ = 0 THEN Len(s.osk.all_special_sets) - 1
                                   ELSE @ - 1,
                               !.osk.char_idx = 0,
                               !.osk.show_special_set_name = TRUE])
      [] action = "ACTION_DOWN" ->
           validated([s EXCEPT !.osk.set_idx = (@ + 1) % Len(s.osk.all_special_sets),
                               !.osk.char_idx = 0,
                               !.osk.show_special_set_name = TRUE])
      [] action = "ACTION_LEFT" ->
           validated([s EXCEPT !.osk.char_idx = IF @ = 0 THEN set_len - 1 ELSE @ - 1,
                               !.osk.show_special_set_name = FALSE])
      [] action = "ACTION_RIGHT" ->
           validated([s EXCEPT !.osk.char_idx = (@ + 1) % set_len,
                               !.osk.show_special_set_name = FALSE])
      [] action = "ACTION_SELECT" ->
           IF set_len > 0 /\ s.osk.char_idx < set_len
           THEN selected(osk_handle_key_selection(s,
                    s.osk.all_special_sets[s.osk.set_idx + 1].keys[s.osk.char_idx + 1],
                    env))
           ELSE s
      [] OTHER -> osk_plain_key_action(s, action)

process_osk_special_action(s, action, env) ==
    special_action_switch(s, action, env,
                          s.osk.all_special_sets[s.osk.set_idx + 1].length)

process_osk_action(s, action, env) ==
    IF s.osk.mode = OSK_MODE_SPECIAL
    THEN process_osk_special_action(s, action, env)
    ELSE process_osk_chars_action(s, action, env)

\* the key process_direct_terminal_action sends for the action
direct_action_key(action) ==
    CASE action = "ACTION_UP" -> "SDLK_UP"
      [] action = "ACTION_DOWN" -> "SDLK_DOWN"
      [] action = "ACTION_LEFT" -> "SDLK_LEFT"
      [] action = "ACTION_RIGHT" -> "SDLK_RIGHT"
      [] action = "ACTION_BACK" -> "SDLK_BACKSPACE"
      [] action = "ACTION_SPACE" -> "SDLK_SPACE"
      [] action = "ACTION_TAB" -> "SDLK_TAB"
      [] action = "ACTION_ENTER" -> "SDLK_RETURN"
      [] OTHER -> "SDLK_UNKNOWN"

process_direct_terminal_action(s, action) ==
    IF direct_action_key(action) = "SDLK_UNKNOWN" THEN s
    ELSE IF action = "ACTION_SPACE" /\ get_combined_modifiers(s.osk) = KMOD_NONE
    THEN clear_one_shot_modifiers(send_text_input_event(s, Str(<<" ">>)))
    ELSE clear_one_shot_modifiers(
            send_key_event(s, direct_action_key(action),
                           get_combined_modifiers(s.osk)))

\* CMD_OSK_TOGGLE_POSITION of execute_internal_command; the other commands
\* act on the terminal and the font
execute_osk_command(s) ==
    IF s.cmd = "CMD_OSK_TOGGLE_POSITION"
    THEN [s EXCEPT !.osk.position_mode =
            IF @ = "OSK_POSITION_OPPOSITE" THEN "OSK_POSITION_SAME"
            ELSE "OSK_POSITION_OPPOSITE"]
    ELSE s

\* event_handle_terminal_action for the actions that are no scroll
event_handle_terminal_action(s, action, env) ==
    IF s.osk.active
    THEN execute_osk_command(process_osk_action(s, action, env))
    ELSE process_direct_terminal_action(s, action)

\* toggle_osk_state that always leaves Special mode by switching the OSK off
toggle_osk_off_from_special(o) ==
    IF ~o.active
    THEN [osk_validate_row_index(
             [o EXCEPT !.active = TRUE, !.mode = OSK_MODE_CHARS,
                       !.set_idx = 0, !.char_idx = 0])
          EXCEPT !.show_special_set_name = FALSE]
    ELSE IF o.mode = OSK_MODE_CHARS
    THEN [osk_validate_row_index(
             [o EXCEPT !.mode = OSK_MODE_SPECIAL, !.set_idx = 0, !.char_idx = 0])
          EXCEPT !.show_special_set_name = TRUE]
    ELSE [o EXCEPT !.active = FALSE, !.show_special_set_name = FALSE]

toggle_osk_state(o) ==
    IF ~o.active
    THEN [osk_validate_row_index(
             [o EXCEPT !.active = TRUE, !.mode = OSK_MODE_CHARS,
                       !.set_idx = 0, !.char_idx = 0])
          EXCEPT !.show_special_set_name = FALSE]
    ELSE IF o.mode = OSK_MODE_CHARS
    THEN [osk_validate_row_index(
             [o EXCEPT !.mode = OSK_MODE_SPECIAL, !.set_idx = 0, !.char_idx = 0])
          EXCEPT !.show_special_set_name = TRUE]
    ELSE IF o.mod_ctrl \/ o.mod_alt \/ o.mod_shift \/ o.mod_gui
    THEN [osk_validate_row_index([o EXCEPT !.mode = OSK_MODE_CHARS])
          EXCEPT !.show_special_set_name = FALSE]
    ELSE [o EXCEPT !.active = FALSE, !.show_special_set_name = FALSE]

\* handle_held_modifier_button and handle_held_modifier_axis: the held flag
\* of the modifier follows the button or trigger
handle_held_modifier(o, modifier, pressed) ==
    CASE modifier = "shift" /\ pressed # o.held_shift ->
           osk_validate_row_index([o EXCEPT !.held_shift = pressed])
      [] modifier = "ctrl" /\ pressed # o.held_ctrl ->
           osk_validate_row_index([o EXCEPT !.held_ctrl = pressed])
      [] modifier = "alt" /\ pressed # o.held_alt ->
           osk_validate_row_index([o EXCEPT !.held_alt = pressed])
      [] modifier = "gui" /\ pressed # o.held_gui ->
           osk_validate_row_index([o EXCEPT !.held_gui = pressed])
      [] OTHER -> o

\* the OnScreenKeyboard of main after osk_init_all_sets and osk_load_layout,
\* the layout file having given the layers
osk_create(layers) ==
    osk_init_all_sets(
        [active |-> FALSE, mode |-> OSK_MODE_CHARS,
         position_mode |-> "OSK_POSITION_OPPOSITE",
         set_idx |-> 0, char_idx |-> 0,
         char_sets_by_modifier |-> layers,
         mod_ctrl |-> FALSE, mod_alt |-> FALSE, mod_shift |-> FALSE,
         mod_gui |-> FALSE,
         held_ctrl |-> FALSE, held_shift |-> FALSE, held_alt |-> FALSE,
         held_gui |-> FALSE,
         all_special_sets |-> <<>>,
         show_special_set_name |-> FALSE,
         available_dynamic_key_sets |-> <<>>,
         loaded_key_set_names |-> <<>>])

\* init_input_devices from key set i of the configuration on: every set is
\* made available and the ones marked for startup are loaded
RECURSIVE load_key_sets(_, _, _, _)
load_key_sets(o, key_sets, i, disk) ==
    IF i > Len(key_sets) THEN o
    ELSE load_key_sets(
            IF key_sets[i].load_at_startup
            THEN osk_add_custom_set(osk_make_set_available(o, key_sets[i].path),
                                    key_sets[i].path, disk[key_sets[i].path])
            ELSE osk_make_set_available(o, key_sets[i].path),
            key_sets, i + 1, disk)

init_input_devices(o, config, disk) == load_key_sets(o, config.key_sets, 1, disk)

\* the key a layout line makes of a printable ASCII character, and of {N/A}
CharKey(ch) == SpecialKey(<<ch>>, "SK_SEQUENCE", NULL, ch, KMOD_NONE, "CMD_NONE")
NaKey == SpecialKey(<<"">>, "SK_STRING", Str(<<>>), "SDLK_UNKNOWN", KMOD_NONE,
                    "CMD_NONE")

\* the layers of a layout file with the sections given as mask :> rows
Layers(sections) ==
    [m \in 0..15 |-> IF m \in DOMAIN sections THEN sections[m] ELSE NULL]

\* [default] abc  [shift] A{N/A}C
ExampleLayers ==
    Layers(0 :> << LayoutRow(<<CharKey("a"), CharKey("b"), CharKey("c")>>) >>
           @@ 1 :> << LayoutRow(<<CharKey("A"), NaKey, CharKey("C")>>) >>)

\* sent holds the last input event handled and the key and text events it
\* handed to the PTY encoder
NothingSent == [action |-> "ACTION_NONE", events |-> <<>>]

\* the state the input functions start from when an action is handled
Start(o) == [osk |-> o, sent |-> <<>>, cmd |-> "CMD_NONE", ui_updated |-> FALSE]

-----------------------------------------------------------------------------
(* The event loop: PTY reads and user actions *)

\* main_loop: a successful read resets the view, parses the window, and the
\* pending response is then written to the PTY and response_len reset
flush_response(t) ==
    IF t.response_len > 0 THEN [t EXCEPT !.response_len = 0] ELSE t

main_loop_read(t, buf) ==
    flush_response(
        terminal_handle_input(
            IF t.view_offset # 0 THEN [t EXCEPT !.view_offset = 0] ELSE t, buf))

\* terminal_scroll_view without the alternate-screen guard and without the
\* clamp to history_size
scroll_view_unclamped(t, amount) ==
    [t EXCEPT !.view_offset = SDL_max(0, t.view_offset + amount)]

terminal_scroll_view(t, amount) ==
    IF t.alt_screen_active \/ t.history_size = 0 THEN t
    ELSE LET new_offset == t.view_offset + amount
             t1 == [t EXCEPT !.view_offset =
                        SDL_max(0, SDL_min(t.history_size, new_offset))]
         IN IF t1.view_offset # t.view_offset
            THEN [t1 EXCEPT !.full_redraw_needed = TRUE]
            ELSE t1

\* terminal_resize with the allocations succeeding.  The new alternate buffer
\* is not initialised by the code: its content is whatever malloc returned,
\* here every cell equal to the glyph `junk`.
terminal_resize(t, new_cols, new_rows, junk) ==
    IF t.cols = new_cols /\ t.rows = new_rows THEN t
    ELSE terminal_reset(
            [t EXCEPT
                !.alt_grid = IF t.alt_grid # NULL
                             THEN [y \in 0..(new_rows - 1) |->
                                      [x \in 0..(new_cols - 1) |-> junk]]
                             ELSE NULL,
                !.cols = new_cols,
                !.rows = new_rows,
                !.total_lines = new_rows + t.scrollback])

\* the streams the shell may write, as byte values
CSI(body) == <<ESC, 91>> \o body

\* the step of the parser loop that ran last while buf was processed from t:
\* the terminal before it and the byte it looked at (acc when buf is empty)
RECURSIVE last_step(_, _, _, _)
last_step_next(r, buf, acc) == last_step(r.t, buf, r.i + 1, acc)

last_step(t, buf, i, acc) ==
    IF i >= Len(buf) THEN acc
    ELSE last_step_next(process_byte(t, buf, i), buf,
                        [before |-> t, c |-> buf[i + 1]])

NoStep == [before |-> [parse_state |-> "none"], c |-> -1]

\* the bytes the read of this step returned (<<>> when the step is no read)
Consumed ==
    IF Len(pending') < Len(pending) /\ nwrites' = nwrites
    THEN SubSeq(pending, 1, Len(pending) - Len(pending'))
    ELSE <<>>

\* the last parser step of this step's read
LastStep == last_step(term, Consumed, 0, NoStep)

\* this step's read ended by dispatching the CSI final byte `final` with
\* private marker pm
IsCsiStep(step, final, pm) ==
    /\ step.before.parse_state = STATE_CSI
    /\ step.c = final
    /\ step.before.csi_private_marker = pm

EndsWithCsi(final, pm) == IsCsiStep(LastStep, final, pm)

\* main_loop before its first iteration: no repeat is set up, no button is
\* down, and the terminal was started without --read-only
InitControl ==
    /\ repeat_state = [is_held |-> FALSE, action |-> "ACTION_NONE"]
    /\ read_only = FALSE
    /\ buttons = {}
    /\ event = [type |-> "none", button |-> "none"]
    /\ started_by = "none"
    /\ written = <<>>

Init ==
    /\ InitControl
    /\ pending = <<>>
    /\ nwrites = 0
    /\ nuser = 0
    /\ fed = <<>>
    /\ alt_entry = NULL
    /\ osk = osk_create(ExampleLayers)
    /\ sent = NothingSent

\* the shell writes one of the streams S to the PTY
ShellWrite(S) ==
    /\ pending = <<>>
    /\ nwrites < MaxWrites
    /\ \E s \in S : pending' = s
    /\ nwrites' = nwrites + 1
    /\ UNCHANGED <<term, nuser, fed, alt_entry, osk, sent, ctl_vars>>

\* one loop iteration whose read returns the next n bytes
PtyRead ==
    /\ pending # <<>>
    /\ \E n \in 1..Len(pending) :
         /\ term' = main_loop_read(term, SubSeq(pending, 1, n))
         /\ pending' = SubSeq(pending, n + 1, Len(pending))
    /\ UNCHANGED <<nwrites, nuser, fed, alt_entry, osk, sent, ctl_vars>>

\* cursor and attributes of t
CursorAndAttributes(t) ==
    [cursor_x |-> t.cursor_x, cursor_y |-> t.cursor_y,
     fg |-> t.current_fg, bg |-> t.current_bg,
     attributes |-> t.current_attributes]

\* the value of alt_entry after buf was processed from t: the cursor and
\* attributes in front of the last parser step that entered the alternate screen
RECURSIVE alt_entry_after(_, _, _, _)
alt_entry_next(t, r, buf, acc) ==
    alt_entry_after(r.t, buf, r.i + 1,
                    IF ~t.alt_screen_active /\ r.t.alt_screen_active
                    THEN CursorAndAttributes(t) ELSE acc)

alt_entry_after(t, buf, i, acc) ==
    IF i >= Len(buf) THEN acc
    ELSE alt_entry_next(t, process_byte(t, buf, i), buf, acc)

\* PtyRead that also records the bytes read and the alternate-screen entry
PtyReadLogged ==
    /\ pending # <<>>
    /\ \E n \in 1..Len(pending) :
         /\ term' = main_loop_read(term, SubSeq(pending, 1, n))
         /\ pending' = SubSeq(pending, n + 1, Len(pending))
         /\ fed' = fed \o SubSeq(pending, 1, n)
         /\ alt_entry' = alt_entry_after(term, SubSeq(pending, 1, n), 0, alt_entry)
    /\ UNCHANGED <<nwrites, nuser, osk, sent, ctl_vars>>

\* the sizes of the reads of PtyReadWindow; a short rest is returned whole
ReadSizes == {1, 7, 64}

\* one loop iteration whose read returns the next bytes, at most a window
PtyReadWindow ==
    /\ pending # <<>>
    /\ \E w \in ReadSizes :
         LET n == IF w < Len(pending) THEN w ELSE Len(pending) IN
         /\ term' = main_loop_read(term, SubSeq(pending, 1, n))
         /\ pending' = SubSeq(pending, n + 1, Len(pending))
    /\ UNCHANGED <<nwrites, nuser, fed, alt_entry, osk, sent, ctl_vars>>

\* ACTION_SCROLL_UP, ACTION_SCROLL_DOWN and the mouse wheel
ScrollView ==
    /\ nuser < MaxUser
    /\ \E amount \in { SDL_max(1, term.rows \div 2),
                       -MOUSE_WHEEL_SCROLL_AMOUNT,
                       MOUSE_WHEEL_SCROLL_AMOUNT } :
         term' = terminal_scroll_view(term, amount)
    /\ nuser' = nuser + 1
    /\ UNCHANGED <<pending, nwrites, fed, alt_entry, osk, sent, ctl_vars>>

\* the sizes a font change may resize the terminal to
Sizes == { <<2, 2>>, <<2, 3>> }
\* what an uninitialised glyph may hold
JunkGlyphs == { Glyph(0, <<0, 0, 0, 0>>, <<0, 0, 0, 0>>, 0),
                Glyph(69, default_palette[2], default_palette[0], 0) }

\* CMD_FONT_INC / CMD_FONT_DEC: font_change_size resizes the terminal
Resize ==
    /\ nuser < MaxUser
    /\ \E sz \in Sizes, junk \in JunkGlyphs :
         term' = terminal_resize(term, sz[1], sz[2], junk)
    /\ nuser' = nuser + 1
    /\ UNCHANGED <<pending, nwrites, fed, alt_entry, osk, sent, ctl_vars>>

\* CMD_TERMINAL_RESET
CmdReset ==
    /\ nuser < MaxUser
    /\ term' = terminal_reset(term)
    /\ nuser' = nuser + 1
    /\ UNCHANGED <<pending, nwrites, fed, alt_entry, osk, sent, ctl_vars>>

\* CMD_TERMINAL_CLEAR
CmdClear ==
    /\ nuser < MaxUser
    /\ term' = terminal_clear_visible_screen(term)
    /\ nuser' = nuser + 1
    /\ UNCHANGED <<pending, nwrites, fed, alt_entry, osk, sent, ctl_vars>>

-----------------------------------------------------------------------------
(* Spec: cursor motion, scroll region, alternate screen, reset and resize *)

Streams ==
    { <<97, 98>>,                          \* ab
      <<10, 10, 97, 98>>,                  \* LF LF ab
      <<9>>,                               \* TAB
      CSI(<<50, 59, 51, 114>>) \o CSI(<<51, 59, 49, 72>>),
                                           \* CSI 2;3 r  CSI 3;1 H
      CSI(<<50, 59, 50, 114>>),            \* CSI 2;2 r
      CSI(<<51, 100>>) \o CSI(<<63, 49, 48, 52, 57, 104>>) \o <<97>>,
                                           \* CSI 3 d  CSI ?1049 h  a
      CSI(<<63, 49, 48, 52, 57, 108>>),    \* CSI ?1049 l
      <<ESC, 99>>,                         \* ESC c
      CSI(<<63, 55, 108>>),                \* CSI ?7 l
      CSI(<<63, 54, 104>>),                \* CSI ?6 h
      CSI(<<63, 54, 108>>),                \* CSI ?6 l
      CSI(<<77>>), CSI(<<76>>),            \* CSI M, CSI L
      CSI(<<115>>), CSI(<<117>>),          \* CSI s, CSI u
      CSI(<<50, 100>>),                    \* CSI 2 d
      CSI(<<65>>) \o CSI(<<65>>),          \* CSI A  CSI A
      CSI(<<66>>) \o CSI(<<66>>),          \* CSI B  CSI B
      CSI(<<67>>),                         \* CSI C
      <<ESC, 77>>,                         \* ESC M
      <<ESC, 56>>                          \* ESC 8
    }

InitSpec == Init /\ term = terminal_create(2, 3, 2)

Write == ShellWrite(Streams)

Next == Write \/ PtyRead \/ ScrollView \/ Resize \/ CmdReset \/ CmdClear

Spec == InitSpec /\ [][Next]_vars

----------\* the rows the screen shows
Visible(t) ==
    [y \in 0..(t.rows - 1) |-> read_line(t, terminal_get_view_line(t, y))]

\* the parser step was the ESC c dispatch
IsEscC(step) == step.before.parse_state = STATE_ESCAPE /\ step.c = 99

\* t shows what the freshly constructed terminal f shows and has its cursor,
\* attributes, modes, scroll region and history
SameAsFresh(t, f) ==
    /\ Visible(t) = Visible(f)
    /\ t.cursor_x = f.cursor_x /\ t.cursor_y = f.cursor_y
    /\ t.current_fg = f.current_fg /\ t.current_bg = f.current_bg
    /\ t.current_attributes = f.current_attributes
    /\ t.alt_screen_active = f.alt_screen_active
    /\ t.autowrap_mode = f.autowrap_mode
    /\ t.origin_mode = f.origin_mode
    /\ t.insert_mode = f.insert_mode
    /\ t.cursor_visible = f.cursor_visible
    /\ t.application_cursor_keys_mode = f.application_cursor_keys_mode
    /\ t.application_keypad_mode = f.application_keypad_mode
    /\ t.scroll_top = f.scroll_top /\ t.scroll_bottom = f.scroll_bottom
    /\ t.history_size = f.history_size /\ t.view_offset = f.view_offset

\* C4: feeding ESC c from any reachable state leaves the visible grid, the
\* cursor, the attributes, the modes, the scroll region and the history equal
\* to those of a freshly constructed terminal of the same dimensions.
C4_EscCEqualsFresh ==
    [][ (Consumed # <<>> /\ IsEscC(LastStep))
        => SameAsFresh(term', terminal_create(term'.cols, term'.rows,
                                              term'.scrollback)) ]_vars

-------------------------------------------------------------------
\* C1: after every input byte and every user action the cursor is on the
\* grid: 0 <= cursor_x < cols and 0 <= cursor_y < rows.
C1_CursorOnGrid ==
    /\ 0 <= term.cursor_x /\ term.cursor_x < term.cols
    /\ 0 <= term.cursor_y /\ term.cursor_y < term.rows

------------------------------------------------------------------------------------------------------------------------------------------------------------------------------------------------------------------------\* a byte that advances the cursor: TAB or a printable ASCII character
IsAdvancingByte(c) == c = 9 \/ (c >= 32 /\ c < 127)

\* C8: with autowrap disabled, once the cursor has reached column cols-1,
\* further cursor-advancing inputs leave cursor_x equal to cols-1: it never
\* goes beyond cols-1 and never wraps to another line.
C8_ParkedAtLastColumn ==
    [][ ( /\ Len(Consumed) = 1
          /\ IsAdvancingByte(Consumed[1])
          /\ term.parse_state = STATE_NORMAL
          /\ term.utf8_bytes_to_read = 0
          /\ ~term.autowrap_mode
          /\ term.cursor_x = term.cols - 1 )
        => (term'.cursor_x = term.cols - 1 /\ term'.cursor_y = term.cursor_y)
      ]_vars

-----
(* SpecRegion: the scroll region and cursor motion.  Of the user actions only
   the font change and the reset write the cursor or the region
   (terminal_scroll_view writes view_offset, terminal_clear_visible_screen
   the cells); the other two are part of Spec and SpecView. *)

RegionStreams ==
    { <<10, 10, 97, 98>>,                  \* LF LF ab
      <<9>>,                               \* TAB
      CSI(<<50, 59, 51, 114>>) \o CSI(<<51, 59, 49, 72>>),
                                           \* CSI 2;3 r  CSI 3;1 H
      <<ESC, 99>>,                         \* ESC c
      CSI(<<63, 54, 104>>),                \* CSI ?6 h
      CSI(<<63, 54, 108>>),                \* CSI ?6 l
      CSI(<<117>>),                        \* CSI u
      CSI(<<50, 100>>),                    \* CSI 2 d
      CSI(<<65>>) \o CSI(<<65>>),          \* CSI A  CSI A
      CSI(<<66>>) \o CSI(<<66>>),          \* CSI B  CSI B
      <<ESC, 77>>                          \* ESC M
    }

InitRegion == Init /\ term = terminal_create(2, 3, 2)

WriteRegion == ShellWrite(RegionStreams)

NextRegion == WriteRegion \/ PtyRead \/ Resize \/ CmdReset

SpecRegion == InitRegion /\ [][NextRegion]_vars

\* the cursor row lies in the scroll region
InRegion(t) ==
    t.scroll_top <= t.cursor_y + 1 /\ t.cursor_y + 1 <= t.scroll_bottom

\* the parser step completed a CSI H (or f) with origin mode off
IsCsiHOriginOff(step) ==
    /\ step.before.parse_state = STATE_CSI
    /\ step.before.csi_private_marker = 0
    /\ step.c \in {72, 102}
    /\ ~step.before.origin_mode

\* the parser step completed a sequence that places the cursor on a row taken
\* from the screen or from a saved position: CSI H/f with origin mode off,
\* CSI d, CSI r, CSI u, ESC 8, or a private mode set/reset (CSI ? h, CSI ? l)
IsAbsolutePlacement(step) ==
    \/ IsCsiHOriginOff(step)
    \/ /\ step.before.parse_state = STATE_CSI
       /\ step.before.csi_private_marker = 0
       /\ step.c \in {100, 114, 117}
    \/ /\ step.before.parse_state = STATE_CSI
       /\ step.before.csi_private_marker = 63
       /\ step.c \in {104, 108}
    \/ /\ step.before.parse_state = STATE_ESCAPE
       /\ step.c = 56

\* C3 (as stated): after every input byte and every user action the cursor
\* row lies in the scroll region, except immediately after a CSI H that
\* placed the cursor with origin mode off.
C3_InRegionExceptAfterCsiH ==
    [][ ( \/ (Consumed # <<>> /\ ~IsCsiHOriginOff(LastStep))
          \/ nuser' # nuser )
        => InRegion(term') ]_vars

\* C3 (amended): a cursor row inside the scroll region stays inside it over
\* every user action and over every input byte that does not complete an
\* absolute placement (CSI H/f with origin mode off, CSI d, CSI r, CSI u,
\* ESC 8, CSI ? h, CSI ? l); the other bytes only observe the screen bounds
\* or a saved position.
C3_InRegionPreserved ==
    [][ ( /\ InRegion(term)
          /\ \/ nuser' # nuser
             \/ (Len(Consumed) = 1 /\ ~IsAbsolutePlacement(LastStep)) )
        => InRegion(term') ]_vars

\* the region is restricted and the cursor sits on its top row after two
\* writes: CSI 2;3 r CSI 3;1 H, then CSI A CSI A clamped at scroll_top
C3_Witness ==
    /\ term.scroll_top > 1
    /\ term.cursor_y = term.scroll_top - 1
    /\ term.saved_cursor_y = 0
    /\ ~term.origin_mode
    /\ nwrites = 2 /\ pending = <<>> /\ nuser = 0

-----------------------------------------------------------------------------
(* SpecScroll: line scrolling inside the region, on both screens and on a
   one-row terminal *)

ScrollStreams ==
    { <<10, 10, 97, 98>>,                  \* LF LF ab
      CSI(<<50, 59, 51, 114>>) \o CSI(<<51, 59, 49, 72>>),
                                           \* CSI 2;3 r  CSI 3;1 H
      CSI(<<50, 59, 50, 114>>),            \* CSI 2;2 r
      CSI(<<49, 59, 49, 114>>),            \* CSI 1;1 r
      CSI(<<63, 49, 48, 52, 57, 104>>) \o <<10, 10, 97, 98>>,
                                           \* CSI ?1049 h  LF LF ab
      CSI(<<51, 49, 109>>) \o CSI(<<77>>), \* CSI 31 m  CSI M
      CSI(<<76>>),                         \* CSI L
      CSI(<<83>>),                         \* CSI S
      CSI(<<84>>),                         \* CSI T
      <<97, 98>>                           \* ab
    }

InitScroll ==
    /\ Init
    /\ term \in { terminal_create(2, 3, 2), terminal_create(2, 1, 1) }

WriteScroll == ShellWrite(ScrollStreams)

NextScroll == WriteScroll \/ PtyRead \/ Resize

SpecScroll == InitScroll /\ [][NextScroll]_vars

\* the parser step completed a CSI r that asks for a one-row region
IsCsiROneRow(step) ==
    /\ IsCsiStep(step, 114, 0)
    /\ csi_r_top(step.before) = csi_r_bottom(step.before)
    /\ csi_r_bottom(step.before) <= step.before.rows

\* the parser step called terminal_scroll_region with top_y = bottom_y:
\* CSI L / CSI M with the cursor on the last row of the region, or
\* CSI S / CSI T with a one-row region
IsOneRowScroll(step) ==
    \/ /\ IsCsiStep(step, 76, 0) \/ IsCsiStep(step, 77, 0)
       /\ step.before.cursor_y = step.before.scroll_bottom - 1
       /\ step.before.cursor_y >= step.before.scroll_top - 1
       /\ step.before.cursor_y < step.before.rows
    \/ /\ IsCsiStep(step, 83, 0) \/ IsCsiStep(step, 84, 0) \/ IsCsiStep(step, 94, 0)
       /\ step.before.scroll_top = step.before.scroll_bottom

\* the row terminal_scroll_region(t, y, y, n) is called on by the step
OneRowScrolled(step) ==
    IF step.c \in {76, 77} THEN step.before.cursor_y
    ELSE step.before.scroll_top - 1

\* C9 (as stated): a scroll region of a single row (top == bottom) is
\* permitted, and a scroll_region operation on such a region changes no
\* visible cell.
C9_OneRowRegionNoEffect ==
    [][ Len(Consumed) = 1 =>
          /\ IsCsiROneRow(LastStep) =>
                /\ term'.scroll_top = csi_r_top(LastStep.before)
                /\ term'.scroll_bottom = csi_r_bottom(LastStep.before)
          /\ IsOneRowScroll(LastStep) => Visible(term') = Visible(term) ]_vars

\* C9 (amended): CSI r with top == bottom is rejected and leaves region and
\* cursor as they are, so a one-row region exists only on a one-row terminal;
\* a scroll_region operation on a single row blanks that row in the current
\* attributes and changes no other visible cell.
C9_OneRowScrollBlanksRow ==
    [][ Len(Consumed) = 1 =>
          /\ IsCsiROneRow(LastStep) =>
                /\ term'.scroll_top = term.scroll_top
                /\ term'.scroll_bottom = term.scroll_bottom
                /\ term'.cursor_x = term.cursor_x
                /\ term'.cursor_y = term.cursor_y
          /\ (term'.scroll_top = term'.scroll_bottom) => term'.rows = 1
          /\ IsOneRowScroll(LastStep) =>
                \A y \in 0..(term.rows - 1) :
                    Visible(term')[y] =
                        IF y = OneRowScrolled(LastStep)
                        THEN [x \in 0..(term.cols - 1) |-> BlankGlyph(term)]
                        ELSE Visible(term)[y] ]_vars

\* CSI M has just scrolled the single last row of a three-row screen that
\* held text, with red as the current foreground
C9_Witness ==
    /\ term.rows = 3
    /\ term.cursor_y = 2 /\ term.scroll_bottom = 3
    /\ term.current_fg = default_palette[1]
    /\ Visible(term)[2] = [x \in 0..(term.cols - 1) |-> BlankGlyph(term)]
    /\ nwrites = 2 /\ pending = <<>>
    /\ term.parse_state = STATE_NORMAL

-----
(* SpecView: scrollback history and the scrolled view *)

ViewStreams ==
    { <<10, 10, 10>>,                    \* LF LF LF
      <<97, 98>>,                        \* ab
      <<ESC, 99>>,                       \* ESC c
      CSI(<<63, 49, 48, 52, 57, 104>>),  \* CSI ?1049 h
      CSI(<<63, 49, 48, 52, 57, 108>>),  \* CSI ?1049 l
      CSI(<<50, 59, 51, 114>>),          \* CSI 2;3 r
      CSI(<<83>>)                        \* CSI S
    }

InitView ==
    /\ Init
    /\ term \in { terminal_create(2, 3, 2), terminal_create(2, 2, 0) }

WriteView == ShellWrite(ViewStreams)

NextView ==
    WriteView \/ PtyRead \/ ScrollView \/ Resize \/ CmdReset \/ CmdClear

SpecView == InitView /\ [][NextView]_vars

\* C2: view_offset <= history_size <= scrollback in every state, and
\* view_offset = 0 whenever the alternate screen is active.
C2_ViewWithinHistory ==
    /\ 0 <= term.view_offset
    /\ term.view_offset <= term.history_size
    /\ term.history_size <= term.scrollback
    /\ (term.alt_screen_active => term.view_offset = 0)

\* the user has scrolled back into a full scrollback
C2_Witness ==
    /\ term.view_offset > 0
    /\ term.scrollback > 0
    /\ term.history_size = term.scrollback

-----------------------------------------------------------------------------
(* SpecFed: a 5x2 terminal with 10 lines of scrollback fed text, UTF-8 and
   SGR sequences, with the bytes read so far recorded in fed *)

FedStreams ==
    { <<97, 98, 99, 100, 101, 102>>,       \* abcdef
      <<10, 49, 10, 50>>,                  \* LF 1 LF 2
      <<195, 169>>,                        \* U+00E9
      <<226, 130, 172>>,                   \* U+20AC
      <<240, 159, 152, 128>>,              \* U+1F600
      <<226, 130>>,                        \* U+20AC cut short
      <<169>>,                             \* a continuation byte alone
      CSI(<<49, 59, 51, 49, 59, 52, 50, 109>>),      \* CSI 1;31;42 m
      CSI(<<51, 56, 59, 53, 59, 57, 109>>),          \* CSI 38;5;9 m
      CSI(<<52, 56, 59, 50, 59, 49, 59, 50, 59, 51, 109>>),
                                                     \* CSI 48;2;1;2;3 m
      CSI(<<48, 109>>),                    \* CSI 0 m
      CSI(<<109>>),                        \* CSI m
      CSI(<<63, 49, 48, 52, 57, 104>>) \o CSI(<<50, 59, 50, 72>>)
          \o CSI(<<51, 49, 109>>),         \* CSI ?1049 h  CSI 2;2 H  CSI 31 m
      CSI(<<63, 49, 48, 52, 57, 108>>)     \* CSI ?1049 l
    }

InitFed == Init /\ term = terminal_create(5, 2, 10)

WriteFed == ShellWrite(FedStreams)

NextFed == WriteFed \/ PtyReadLogged

SpecFed == InitFed /\ [][NextFed]_vars

\* C5: entering the alternate screen and later leaving it, with cursor-moving
\* or SGR bytes in between, restores the cursor position and the current
\* attributes (fg, bg, attribute bits) to their values at entry.
C5_AltLeaveRestores ==
    [][ ( /\ Consumed # <<>>
          /\ IsCsiStep(LastStep, 108, 63)
          /\ LastStep.before.alt_screen_active
          /\ ~term'.alt_screen_active
          /\ alt_entry' # NULL )
        => CursorAndAttributes(term') = alt_entry' ]_vars

\* the characters of one grid line, left to right
RowChars(t, row) == [x \in 1..t.cols |-> row[x - 1].character]

\* the k-th newest line of history, k = 1 being the newest
HistoryLine(t, k) == t.grid[(t.top_line - k + t.total_lines) % t.total_lines]

Abcdef == <<97, 98, 99, 100, 101, 102>>

AbcdefThenLines == Abcdef \o <<10, 49, 10, 50>>

\* what the 5x2 terminal shows once exactly "abcdef" was read
AfterAbcdef(t) ==
    /\ RowChars(t, Visible(t)[0]) = <<97, 98, 99, 100, 101>>
    /\ RowChars(t, Visible(t)[1]) = <<102, 32, 32, 32, 32>>
    /\ t.cursor_x = 1 /\ t.cursor_y = 1
    /\ t.history_size = 0

\* C6 as stated: on the 5x2 terminal with 10 lines of scrollback, "abcdef"
\* gives row 0 "abcde", row 1 "f" and blanks, cursor (1,1), history 0; after
\* the further bytes LF 1 LF 2 one line was scrolled, history_size is 1 and
\* "abcde" is the newest history line.
C6_ScenarioAsStated ==
    /\ (fed = Abcdef /\ pending = <<>>) => AfterAbcdef(term)
    /\ (fed = AbcdefThenLines /\ pending = <<>>) =>
          /\ term.history_size = 1
          /\ RowChars(term, HistoryLine(term, 1)) = <<97, 98, 99, 100, 101>>

\* C6 amended: "abcdef" gives row 0 "abcde", row 1 "f" and blanks, cursor
\* (1,1), history 0; after the further bytes LF 1 LF 2 both newlines have
\* scrolled: history_size is 2, "abcde" is the oldest history line and
\* "f" and blanks the newest, the rows show " 1" and "  2", cursor (3,1).
C6_ScenarioBothNewlinesScroll ==
    /\ (fed = Abcdef /\ pending = <<>>) => AfterAbcdef(term)
    /\ (fed = AbcdefThenLines /\ pending = <<>>) =>
          /\ term.history_size = 2
          /\ RowChars(term, HistoryLine(term, 2)) = <<97, 98, 99, 100, 101>>
          /\ RowChars(term, HistoryLine(term, 1)) = <<102, 32, 32, 32, 32>>
          /\ RowChars(term, Visible(term)[0])
                = <<32, 49, 32, 32, 32>>
          /\ RowChars(term, Visible(term)[1])
                = <<32, 32, 50, 32, 32>>
          /\ term.cursor_x = 3 /\ term.cursor_y = 1

C6_Witness ==
    /\ fed = AbcdefThenLines /\ pending = <<>>
    /\ term.history_size = 2

\* position in f of the lead byte of the UTF-8 sequence f ends in
LastLeadPos(f) ==
    CHOOSE p \in 1..Len(f) :
        /\ f[p] >= 192
        /\ \A q \in (p + 1)..Len(f) : f[q] < 192

\* the code point a complete UTF-8 sequence encodes
Utf8Value(q) ==
    CASE Len(q) = 2 -> (q[1] % 32) * 64 + (q[2] % 64)
      [] Len(q) = 3 -> (q[1] % 16) * 4096 + (q[2] % 64) * 64 + (q[3] % 64)
      [] Len(q) = 4 -> (q[1] % 8) * 262144 + (q[2] % 64) * 4096
                          + (q[3] % 64) * 64 + (q[4] % 64)

\* the code point of the UTF-8 sequence f ends in
LastCodepoint(f) == Utf8Value(SubSeq(f, LastLeadPos(f), Len(f)))

IsContinuation(c) == c \div 64 = 2

IsLead(c) == c >= 192 /\ c < 248

\* what a byte can change on screen
Shown(t) ==
    [visible |-> Visible(t), cursor_x |-> t.cursor_x, cursor_y |-> t.cursor_y,
     history_size |-> t.history_size]

\* t with no UTF-8 sequence in progress
CleanNormal(t) == [t EXCEPT !.utf8_bytes_to_read = 0]

Utf8StepOk(t, c, t2, f2) ==
    IF t.utf8_bytes_to_read = 0
    THEN IsLead(c) => (Shown(t2) = Shown(t) /\ t2.utf8_bytes_to_read > 0)
    ELSE IF IsContinuation(c)
         THEN IF t.utf8_bytes_to_read > 1
              THEN /\ Shown(t2) = Shown(t)
                   /\ t2.utf8_bytes_to_read = t.utf8_bytes_to_read - 1
              ELSE /\ Shown(t2) = Shown(terminal_put_char(t, LastCodepoint(f2)))
                   /\ t2.utf8_bytes_to_read = 0
         ELSE t2 = main_loop_read(CleanNormal(t), <<c>>)

\* C7: a UTF-8 character is decoded across reads. While a sequence is
\* incomplete (after its lead byte, or after a continuation byte that is not
\* its last) nothing is written and the cursor stays; the continuation byte
\* that completes it writes exactly the code point the sequence encodes; a
\* byte that is not a continuation discards the partial character and is
\* processed as in a clean Normal state.
C7_Utf8AcrossReads ==
    [][ (Len(Consumed) = 1 /\ term.parse_state = STATE_NORMAL)
        => Utf8StepOk(term, Consumed[1], term', fed') ]_vars

C7_Witness ==
    /\ fed = <<226, 130>> \o <<226, 130, 172>> /\ pending = <<>>
    /\ term.cursor_x = 1
    /\ Visible(term)[0][0].character = 8364

\* C10: whatever SGR sequences came before, CSI 0 m (or CSI m) leaves the
\* current foreground, background and attribute bits at default_fg,
\* default_bg and 0.
C10_Sgr0ResetsAttributes ==
    [][ ( /\ Consumed # <<>>
          /\ IsCsiStep(LastStep, 109, 0)
          /\ LastStep.before.csi_param_count <= 1
          /\ LastStep.before.csi_params[0] = 0 )
        => /\ term'.current_fg = term'.default_fg
           /\ term'.current_bg = term'.default_bg
           /\ term'.current_attributes = 0 ]_vars

C10_Witness ==
    /\ fed = CSI(<<49, 59, 51, 49, 59, 52, 50, 109>>) \o CSI(<<48, 109>>)
    /\ pending = <<>>
    /\ term.current_bg = term.default_bg
    /\ term.current_attributes = 0

-----------------------------------------------------------------------------
(* SpecParser: a 2x2 terminal fed sequences longer than the parser's buffers *)

\* n copies of the byte c
Repeat(c, n) == [k \in 1..n |-> c]

ParserStreams ==
    { \* OSC with 300 bytes of text, then a CSI with 20 separators and 5
      \* intermediates
      <<ESC, 93>> \o Repeat(97, 300) \o <<BEL>>
          \o CSI(Repeat(59, 20) \o Repeat(32, 5) \o <<113>>),
      <<ESC, 93, 48, 59, 97, ESC, 92>>,                 \* OSC 0;a ST
      CSI(<<49>> \o Repeat(59, 17) \o <<50, 109>>),   \* CSI 1;;...;2 m
      <<240>>,                                          \* a 4-byte lead alone
      <<240, 159, 152, 128>>,                           \* U+1F600
      <<195, 97>>,                                      \* lead, then a
      CSI(<<49, 128, 97>>),                             \* CSI 1, then 0x80
      CSI(<<54, 110>>) \o CSI(<<99>>),                  \* CSI 6 n  CSI c
      CSI(<<49, 56, 116>>),                             \* CSI 18 t
      <<ESC, 40>>,                                      \* ESC ( cut short
      <<ESC, 35, 56>>,                                  \* ESC # 8
      <<ESC, 80, 97, ESC, 92>>                          \* DCS a ST
    }

InitParser == Init /\ term = terminal_create(2, 2, 1)

WriteParser == ShellWrite(ParserStreams)

NextParser == WriteParser \/ PtyReadWindow

SpecParser == InitParser /\ [][NextParser]_vars

\* no parser field of t is beyond its buffer
WithinCapacity(t) ==
    /\ t.csi_param_count <= CSI_MAX_PARAMS
    /\ DOMAIN t.csi_params = 0..(CSI_MAX_PARAMS - 1)
    /\ t.csi_intermediate_count <= CSI_INTERMEDIATE_SIZE - 1
    /\ Len(t.csi_intermediate_chars) <= CSI_INTERMEDIATE_SIZE - 1
    /\ t.osc_len <= OSC_BUFFER_SIZE
    /\ Len(t.osc_buffer) <= OSC_BUFFER_SIZE
    /\ t.utf8_bytes_to_read <= 3
    /\ t.response_len <= RESPONSE_BUFFER_SIZE

\* every pass of the parser loop over buf from index i on leaves the fields
\* within capacity and no index is looked at more than twice; prev is the
\* index of the pass before and run the number of passes it has had
RECURSIVE passes_bounded(_, _, _, _, _)
passes_bounded_next(r, buf, i, run) ==
    /\ WithinCapacity(r.t)
    /\ run <= 2
    /\ passes_bounded(r.t, buf, r.i + 1, i, run)

passes_bounded(t, buf, i, prev, run) ==
    IF i >= Len(buf) THEN TRUE
    ELSE passes_bounded_next(process_byte(t, buf, i), buf, i,
                             IF i = prev THEN run + 1 ELSE 1)

\* C11: on any byte stream every byte is consumed in a bounded number of
\* parser passes (a byte is looked at at most twice) and after every pass the
\* parser fields are within capacity: at most 16 CSI parameters, 3
\* intermediates, 256 OSC bytes, 3 pending UTF-8 continuation bytes and 64
\* response bytes.
C11_ParserBounded ==
    [][ Consumed # <<>>
        => /\ passes_bounded(term, Consumed, 0, -1, 0)
           /\ WithinCapacity(term') ]_vars

C11_Witness ==
    /\ pending = <<>>
    /\ term.osc_len = OSC_BUFFER_SIZE - 1
    /\ term.csi_param_count = CSI_MAX_PARAMS
    /\ term.csi_intermediate_count = CSI_INTERMEDIATE_SIZE - 1
    /\ term.utf8_bytes_to_read = 3

-----------------------------------------------------------------------------
(* The on-screen keyboard under user input.  The terminal is left alone: of
   the internal commands only CMD_OSK_TOGGLE_POSITION is on a key here. *)

OskActions ==
    {"ACTION_UP", "ACTION_DOWN", "ACTION_LEFT", "ACTION_RIGHT", "ACTION_SELECT",
     "ACTION_BACK", "ACTION_SPACE", "ACTION_TAB", "ACTION_ENTER"}

\* event_handle on the button or key mapped to ACTION_TOGGLE_OSK
ToggleOsk ==
    /\ osk' = toggle_osk_state(osk)
    /\ sent' = [action |-> "ACTION_TOGGLE_OSK", events |-> <<>>]
    /\ UNCHANGED <<term, pending, nwrites, nuser, fed, alt_entry, ctl_vars>>

\* event_handle on SDL_CONTROLLERBUTTONDOWN and SDL_CONTROLLERBUTTONUP of the
\* Shift and Ctrl buttons, which are modifiers only while the OSK is active
HeldButton ==
    /\ osk.active
    /\ \E modifier \in {"shift", "ctrl"}, pressed \in BOOLEAN :
          osk' = handle_held_modifier(osk, modifier, pressed)
    /\ sent' = [action |-> "held_modifier_button", events |-> <<>>]
    /\ UNCHANGED <<term, pending, nwrites, nuser, fed, alt_entry, ctl_vars>>

\* event_handle on SDL_CONTROLLERAXISMOTION of the Alt and GUI triggers
HeldAxis ==
    /\ \E modifier \in {"alt", "gui"}, pressed \in BOOLEAN :
          osk' = handle_held_modifier(osk, modifier, pressed)
    /\ sent' = [action |-> "held_modifier_axis", events |-> <<>>]
    /\ UNCHANGED <<term, pending, nwrites, nuser, fed, alt_entry, ctl_vars>>

\* what the input functions meet outside the keyboard: the files as disk has
\* them, and SK_MACRO or another key type as the content of a freed key
Envs(disks) ==
    {[disk |-> disk, freed_type |-> type] :
        disk \in disks, type \in {"SK_UNLOAD_FILE", "SK_MACRO"}}

\* event_handle_terminal_action on one of actions, the files being as one of
\* disks says
TerminalAction(actions, disks) ==
    /\ \E action \in actions, env \in Envs(disks) :
          /\ osk' = event_handle_terminal_action(Start(osk), action, env).osk
          /\ sent' = [action |-> action,
                      events |-> event_handle_terminal_action(
                                     Start(osk), action, env).sent]
    /\ UNCHANGED <<term, pending, nwrites, nuser, fed, alt_entry, ctl_vars>>

\* the terminal of Init, which the keyboard actions never touch
InitTerminal ==
    /\ InitControl
    /\ term = terminal_create(2, 2, 0)
    /\ pending = <<>>
    /\ nwrites = 0
    /\ nuser = 0
    /\ fed = <<>>
    /\ alt_entry = NULL

-----------------------------------------------------------------------------
(* SpecOsk: modifiers and key emission, with the layout [default] abc
   [shift] A{N/A}C and a key set of macros loaded at startup *)

PathMacros == [dir |-> "", stem |-> "macros", ext |-> ".keys"]

\* macros.keys: a{CTRL}{TAB}b{ENTER}, {SHIFT}, \{{ESC}c, the string hi and
\* the key c with Ctrl
MacroKeys ==
    << SpecialKey(<<"m1">>, "SK_MACRO",
                  Str(<<"a", "{", "C", "T", "R", "L", "}", "{", "T", "A", "B", "}",
                        "b", "{", "E", "N", "T", "E", "R", "}">>),
                  "SDLK_UNKNOWN", KMOD_NONE, "CMD_NONE"),
       SpecialKey(<<"m2">>, "SK_MACRO", Str(<<"{", "S", "H", "I", "F", "T", "}">>),
                  "SDLK_UNKNOWN", KMOD_NONE, "CMD_NONE"),
       SpecialKey(<<"m3">>, "SK_MACRO",
                  Str(<<"\\", "{", "{", "E", "S", "C", "}", "c">>),
                  "SDLK_UNKNOWN", KMOD_NONE, "CMD_NONE"),
       SpecialKey(<<"hi">>, "SK_STRING", Str(<<"h", "i">>), "SDLK_UNKNOWN",
                  KMOD_NONE, "CMD_NONE"),
       SpecialKey(<<"^C">>, "SK_SEQUENCE", NULL, "c", {"KMOD_CTRL"}, "CMD_NONE") >>

DiskOsk == (PathMacros :> [exists |-> TRUE, keys |-> MacroKeys])

ConfigOsk == [key_sets |-> << [path |-> PathMacros, load_at_startup |-> TRUE] >>]

InitOsk ==
    /\ InitTerminal
    /\ osk = init_input_devices(osk_create(ExampleLayers), ConfigOsk, DiskOsk)
    /\ sent = NothingSent

TerminalActionOsk == TerminalAction(OskActions, {DiskOsk})

NextOsk == ToggleOsk \/ HeldButton \/ TerminalActionOsk

SpecOsk == InitOsk /\ [][NextOsk]_vars

PlainKeyActions == {"ACTION_BACK", "ACTION_SPACE", "ACTION_TAB", "ACTION_ENTER"}

\* the key ACTION_SELECT hands to osk_handle_key_selection in the state o of
\* the keyboard, NULL if it hands over none
SelectedKey(o) ==
    IF o.mode = OSK_MODE_SPECIAL
    THEN IF o.char_idx < o.all_special_sets[o.set_idx + 1].length
         THEN o.all_special_sets[o.set_idx + 1].keys[o.char_idx + 1]
         ELSE NULL
    ELSE IF osk_get_effective_row_ptr(o, o.set_idx) = NULL THEN NULL
    ELSE IF get_current_num_char_rows(o) = 0 THEN NULL
    ELSE IF RowAt(o, osk_get_effective_row_ptr(o, o.set_idx)).length = 0 THEN NULL
    ELSE IF osk_get_effective_char_ptr(o, o.set_idx, o.char_idx) = NULL THEN NULL
    ELSE KeyAt(o, osk_get_effective_char_ptr(o, o.set_idx, o.char_idx))

\* the step is ACTION_SELECT on an active OSK and hands over a key
IsSelect == osk.active /\ sent'.action = "ACTION_SELECT" /\ SelectedKey(osk) # NULL

\* the step is Back, Space, Tab or Enter on an active OSK
IsPlainKey == osk.active /\ sent'.action \in PlainKeyActions

\* C12: while the OSK is active, in Chars or Special mode, a Back, Space, Tab
\* or Enter action hands the encoder the corresponding key event with the
\* combined modifiers, one-shot or held, as the same action does while the
\* OSK is off.
C12_PlainKeysCarryCombined ==
    [][IsPlainKey =>
         sent'.events =
            process_direct_terminal_action(Start(osk), sent'.action).sent]_vars

\* C13: a one-shot modifier that is on stays on over every step that is no
\* Select and emits nothing, and all one-shot modifiers are off after a step
\* that emits a key other than a modifier or a macro: a Select of a sequence
\* or string key, or Back, Space, Tab or Enter on the active OSK.
C13_OneShotUntilEmission ==
    [][/\ (sent'.action # "ACTION_SELECT" /\ sent'.events = <<>>)
            => OneShotMods(osk) \subseteq OneShotMods(osk')
       /\ (IsSelect /\ SelectedKey(osk).type \in {"SK_SEQUENCE", "SK_STRING"})
            => OneShotMods(osk') = {}
       /\ IsPlainKey => OneShotMods(osk') = {}]_vars

\* the layer bit of a modifier of an SDL_Keymod
LayerBit(kmod) ==
    CASE kmod = "KMOD_SHIFT" -> OSK_MOD_SHIFT
      [] kmod = "KMOD_CTRL" -> OSK_MOD_CTRL
      [] kmod = "KMOD_ALT" -> OSK_MOD_ALT
      [] kmod = "KMOD_GUI" -> OSK_MOD_GUI

\* the set of held modifiers is not empty and has a layer of its own
HeldSetHasLayer(o) ==
    /\ HeldMods(o) # {}
    /\ o.char_sets_by_modifier[get_physical_modifier_mask(o)] # NULL

\* the step is a Select of a sequence key that sends the key with mods
\* besides the modifiers of the key itself
SelectSends(mods) ==
    sent'.events = << [kind |-> "key", keycode |-> SelectedKey(osk).keycode,
                       mod |-> mods \cup SelectedKey(osk).mod] >>

IsSelectSequence == IsSelect /\ SelectedKey(osk).type = "SK_SEQUENCE"

\* C14: the key event of a selected sequence key carries the one-shot
\* modifiers and, of the held modifiers, none if the set of held modifiers
\* has a layer of its own and all of them if it has none.
C14_HeldSetLayerSwitch ==
    [][IsSelectSequence =>
         SelectSends(OneShotMods(osk)
                     \cup (IF HeldSetHasLayer(osk) THEN {} ELSE HeldMods(osk)))]_vars

\* C14 as stated: every held modifier with a layer of its own is left out and
\* every held modifier without one is included.
C14_PerModifier ==
    [][IsSelectSequence =>
         SelectSends(OneShotMods(osk)
                     \cup {h \in HeldMods(osk) :
                             osk.char_sets_by_modifier[LayerBit(h)] = NULL})]_vars

\* a key was selected with Shift held alone and sent without Shift
C14_Witness ==
    /\ sent.action = "ACTION_SELECT"
    /\ HeldMods(osk) = {"KMOD_SHIFT"}
    /\ Len(sent.events) = 1
    /\ sent.events[1].kind = "key"
    /\ sent.events[1].mod = {}

\* the modifier a modifier token toggles
TokenMod(type) ==
    CASE type = "SK_MOD_SHIFT" -> {"KMOD_SHIFT"}
      [] type = "SK_MOD_CTRL" -> {"KMOD_CTRL"}
      [] type = "SK_MOD_ALT" -> {"KMOD_ALT"}
      [] type = "SK_MOD_GUI" -> {"KMOD_GUI"}
      [] OTHER -> {}

\* The Sequence tokens of the macro str from offset p on, each with the
\* one-shot modifiers that are on when the scan reaches it, and the one-shot
\* modifiers that are on when the scan ends; oneshot and keys are those so far
RECURSIVE MacroWalk(_, _, _, _)
MacroWalkToken(str, p, token, oneshot, keys) ==
    IF token.type = "SK_SEQUENCE"
    THEN MacroWalk(str, p + Len(token.token), oneshot,
                   Append(keys, [keycode |-> token.keycode, oneshot |-> oneshot]))
    ELSE MacroWalk(str, p + Len(token.token),
                   (oneshot \ TokenMod(token.type))
                   \cup (TokenMod(token.type) \ oneshot),
                   keys)

MacroWalk(str, p, oneshot, keys) ==
    IF str[p + 1] = NUL THEN [keys |-> keys, oneshot |-> oneshot]
    ELSE IF str[p + 1] = "\\" /\ str[p + 2] = "{"
    THEN MacroWalk(str, p + 2, oneshot, keys)
    ELSE IF str[p + 1] = "{" /\ osk_find_layout_token(str, p) # NULL
    THEN MacroWalkToken(str, p, osk_find_layout_token(str, p), oneshot, keys)
    ELSE MacroWalk(str, p + 1, oneshot, keys)

IsKeyEvent(e) == e.kind = "key"

\* the key events among events are the keys of walk, in order, and each
\* carries the one-shot modifiers of its token
KeysCarryOneShots(events, walk) ==
    /\ Len(SelectSeq(events, IsKeyEvent)) = Len(walk.keys)
    /\ \A i \in DOMAIN walk.keys :
          /\ SelectSeq(events, IsKeyEvent)[i].keycode = walk.keys[i].keycode
          /\ walk.keys[i].oneshot \subseteq SelectSeq(events, IsKeyEvent)[i].mod
          /\ SelectSeq(events, IsKeyEvent)[i].mod \subseteq
                walk.keys[i].oneshot \cup HeldMods(osk)

\* the outcome of selecting a macro key whose scan is walk
MacroOutcome(walk) ==
    /\ KeysCarryOneShots(sent'.events, walk)
    /\ OneShotMods(osk') = IF Len(walk.keys) > 0 THEN {} ELSE walk.oneshot
    /\ HeldMods(osk') = HeldMods(osk)

\* C17: when a Macro key is selected, every Sequence token of the macro is
\* sent as a key event that carries the one-shot modifiers on at that point
\* of the scan; after the scan the one-shot modifiers are all off if at
\* least one Sequence token was sent and otherwise as the modifier tokens
\* left them; the held modifiers are as before.
C17_MacroOneShots ==
    [][(IsSelect /\ SelectedKey(osk).type = "SK_MACRO") =>
         MacroOutcome(MacroWalk(SelectedKey(osk).sequence, 0, OneShotMods(osk),
                                <<>>))]_vars

\* the macro a{CTRL}{TAB}b{ENTER} was selected: Tab and Enter went out with
\* Ctrl between the texts a and b, and the one-shot modifiers are off
C17_Witness ==
    /\ sent.action = "ACTION_SELECT"
    /\ Len(sent.events) = 4
    /\ sent.events[2].kind = "key"
    /\ sent.events[2].keycode = "SDLK_TAB"
    /\ "KMOD_CTRL" \in sent.events[2].mod
    /\ sent.events[4].kind = "key"
    /\ "KMOD_CTRL" \in sent.events[4].mod
    /\ OneShotMods(osk) = {}

\* C20: a ToggleOsk step takes the OSK from off to Chars mode, from Chars
\* mode to Special mode, and from Special mode to off if no one-shot modifier
\* is on and back to Chars mode if one is; it makes no other change of
\* active and mode.
C20_ToggleCycle ==
    [][sent'.action = "ACTION_TOGGLE_OSK" =>
         <<osk'.active, osk'.mode>> =
            IF ~osk.active THEN <<TRUE, OSK_MODE_CHARS>>
            ELSE IF osk.mode = OSK_MODE_CHARS THEN <<TRUE, OSK_MODE_SPECIAL>>
            ELSE IF OneShotMods(osk) = {} THEN <<FALSE, OSK_MODE_SPECIAL>>
            ELSE <<TRUE, OSK_MODE_CHARS>>]_vars

\* ToggleOsk has just led from Special mode back to Chars mode, a one-shot
\* modifier being on
C20_Witness ==
    /\ sent.action = "ACTION_TOGGLE_OSK"
    /\ osk.active
    /\ osk.mode = OSK_MODE_CHARS
    /\ OneShotMods(osk) # {}

-----------------------------------------------------------------------------
(* SpecLayers: the character layers under the held modifiers.  The OSK has
   been switched on and stays in Chars mode. *)

\* a layout line of plain characters
CharRow(chars) == LayoutRow([i \in DOMAIN chars |-> CharKey(chars[i])])

\* [default] ab / cd / {DEFAULT}   [shift] AB   [alt] 12 / 34 / 56
\* [shift+alt] {DEFAULT} / xy
DefaultRowLayers ==
    Layers(0 :> << CharRow(<<"a", "b">>), CharRow(<<"c", "d">>), DefaultMarkerRow >>
           @@ 1 :> << CharRow(<<"A", "B">>) >>
           @@ 4 :> << CharRow(<<"1", "2">>), CharRow(<<"3", "4">>),
                      CharRow(<<"5", "6">>) >>
           @@ 5 :> << DefaultMarkerRow, CharRow(<<"x", "y">>) >>)

MaxRowIdx == 2
MaxCharIdx == 2

InitLayers ==
    /\ InitTerminal
    /\ \E layers \in {ExampleLayers, DefaultRowLayers} :
          osk = toggle_osk_state(osk_create(layers))
    /\ sent = NothingSent

TerminalActionLayers == TerminalAction(OskActions, {DiskOsk})

NextLayers == HeldButton \/ HeldAxis \/ TerminalActionLayers

SpecLayers == InitLayers /\ [][NextLayers]_vars

\* the masks that are subsets of mask and have a row at set_idx
LayersWithRow(o, set_idx, mask) ==
    {m \in 0..15 : MaskBits(m) \subseteq MaskBits(mask) /\ HasRow(o, m, set_idx)}

\* the greatest element of a set of masks that is not empty
Greatest(masks) == CHOOSE m \in masks : \A n \in masks : n <= m

IsDefaultRow(o, m, set_idx) == RowAt(o, RowPtr(m, set_idx)).length = -1

\* layers[0][set_idx], or no row if it is absent or a {DEFAULT} marker
BaseRow(o, set_idx) ==
    IF HasRow(o, 0, set_idx) /\ ~IsDefaultRow(o, 0, set_idx)
    THEN RowPtr(0, set_idx)
    ELSE NULL

\* C15: for every row index, the effective row under the held modifiers is
\* decided by the first layer, from the held mask down, that is a subset of
\* the mask and has a row at the index: it is that row unless the row is a
\* {DEFAULT} marker; if it is one, or no layer has a row, the effective row
\* is layers[0][set_idx], or none if that is absent or a {DEFAULT} marker.
C15_FirstLayerDecides ==
    \A set_idx \in 0..MaxRowIdx :
        osk_get_effective_row_ptr(osk, set_idx) =
            IF LayersWithRow(osk, set_idx, get_physical_modifier_mask(osk)) = {}
            THEN BaseRow(osk, set_idx)
            ELSE IF IsDefaultRow(osk,
                       Greatest(LayersWithRow(osk, set_idx,
                                              get_physical_modifier_mask(osk))),
                       set_idx)
            THEN BaseRow(osk, set_idx)
            ELSE RowPtr(Greatest(LayersWithRow(osk, set_idx,
                                               get_physical_modifier_mask(osk))),
                        set_idx)

\* the masks of LayersWithRow whose row at set_idx is no {DEFAULT} marker
LayersWithOwnRow(o, set_idx, mask) ==
    {m \in LayersWithRow(o, set_idx, mask) : ~IsDefaultRow(o, m, set_idx)}

\* C15 as stated: the effective row is the row of the first layer, from the
\* held mask down, that is a subset of the mask, has a row at the index and
\* whose row is no {DEFAULT} marker; only if there is none is it
\* layers[0][set_idx], or none if that is a {DEFAULT} marker.
C15_SkipsDefaultRows ==
    \A set_idx \in 0..MaxRowIdx :
        osk_get_effective_row_ptr(osk, set_idx) =
            IF LayersWithOwnRow(osk, set_idx, get_physical_modifier_mask(osk)) = {}
            THEN BaseRow(osk, set_idx)
            ELSE RowPtr(Greatest(LayersWithOwnRow(osk, set_idx,
                                                  get_physical_modifier_mask(osk))),
                        set_idx)

\* Shift and Alt are held, the [shift+alt] layer has {DEFAULT} as its first
\* row, and the first row shown is the one of [default]
C15_Witness ==
    /\ HeldMods(osk) = {"KMOD_SHIFT", "KMOD_ALT"}
    /\ HasRow(osk, 5, 0)
    /\ IsDefaultRow(osk, 5, 0)
    /\ osk.set_idx = 0
    /\ osk_get_effective_row_ptr(osk, 0) = RowPtr(0, 0)
    /\ sent.action = "ACTION_SELECT"
    /\ Len(sent.events) = 1
    /\ sent.events[1].keycode = "a"

\* the slot char_idx of the effective row at set_idx holds the {N/A} key
SlotIsNa(o, set_idx, char_idx) ==
    /\ osk_get_effective_row_ptr(o, set_idx) # NULL
    /\ char_idx < RowAt(o, osk_get_effective_row_ptr(o, set_idx)).length
    /\ is_na_key(RowAt(o, osk_get_effective_row_ptr(o, set_idx)).keys[char_idx + 1])

\* C16: wherever the effective row exists and its key at a slot is {N/A},
\* the effective key is the key at the same slot of layers[0][set_idx]; with
\* [default] abc and [shift] A{N/A}C, Shift held, the key of slot 1 is b.
C16_NaFallsBackToDefault ==
    /\ \A set_idx \in 0..MaxRowIdx, char_idx \in 0..MaxCharIdx :
          SlotIsNa(osk, set_idx, char_idx) =>
             /\ HasRow(osk, 0, set_idx)
             /\ osk_get_effective_char_ptr(osk, set_idx, char_idx)
                  = KeyPtr(0, set_idx, char_idx)
    /\ (osk.char_sets_by_modifier = ExampleLayers /\ HeldMods(osk) = {"KMOD_SHIFT"})
          => /\ SlotIsNa(osk, 0, 1)
             /\ KeyAt(osk, osk_get_effective_char_ptr(osk, 0, 1)) = CharKey("b")

\* with Shift held the {N/A} slot was selected and b was sent
C16_Witness ==
    /\ HeldMods(osk) = {"KMOD_SHIFT"}
    /\ osk.char_idx = 1
    /\ SlotIsNa(osk, osk.set_idx, 1)
    /\ sent.action = "ACTION_SELECT"
    /\ Len(sent.events) = 1
    /\ sent.events[1].keycode = "b"

-----------------------------------------------------------------------------
(* SpecSets: the dynamic key sets.  git.keys is in the configuration; it has
   a string key and keys that load vim.keys, which does not exist, and
   tmux.keys. *)

PathGit == [dir |-> "", stem |-> "git", ext |-> ".keys"]
PathVim == [dir |-> "", stem |-> "vim", ext |-> ".keys"]
PathTmux == [dir |-> "", stem |-> "tmux", ext |-> ".keys"]

GitKeys ==
    << SpecialKey(<<"st">>, "SK_STRING", Str(<<"s", "t">>), "SDLK_UNKNOWN",
                  KMOD_NONE, "CMD_NONE"),
       SpecialKey(<<"vim">>, "SK_LOAD_FILE", PathVim, "SDLK_UNKNOWN", KMOD_NONE,
                  "CMD_NONE"),
       SpecialKey(<<"tmux">>, "SK_LOAD_FILE", PathTmux, "SDLK_UNKNOWN", KMOD_NONE,
                  "CMD_NONE") >>

TmuxKeys ==
    << SpecialKey(<<"ls">>, "SK_STRING", Str(<<"l", "s">>), "SDLK_UNKNOWN",
                  KMOD_NONE, "CMD_NONE") >>

DiskSets ==
    (PathGit :> [exists |-> TRUE, keys |-> GitKeys])
    @@ (PathVim :> [exists |-> FALSE, keys |-> <<>>])
    @@ (PathTmux :> [exists |-> TRUE, keys |-> TmuxKeys])

\* the paths of the configuration
ConfigPaths == {PathGit}

InitSets ==
    /\ InitTerminal
    /\ osk = osk_create(ExampleLayers)
    /\ sent = NothingSent

\* init_input_devices: the call of osk_make_set_available for a set of the
\* configuration
MakeSetAvailableOf(paths) ==
    /\ \E path \in paths : osk' = osk_make_set_available(osk, path)
    /\ sent' = [action |-> "osk_make_set_available", events |-> <<>>]
    /\ UNCHANGED <<term, pending, nwrites, nuser, fed, alt_entry, ctl_vars>>

MakeSetAvailable == MakeSetAvailableOf(ConfigPaths)

\* init_input_devices: the call of osk_add_custom_set that follows
\* osk_make_set_available for a set marked for loading at startup
AddCustomSetOf(paths, disk) ==
    /\ \E path \in paths :
          /\ is_available(osk, path)
          /\ osk' = osk_add_custom_set(osk, path, disk[path])
    /\ sent' = [action |-> "osk_add_custom_set", events |-> <<>>]
    /\ UNCHANGED <<term, pending, nwrites, nuser, fed, alt_entry, ctl_vars>>

AddCustomSet == AddCustomSetOf(ConfigPaths, DiskSets)

SetsActions == {"ACTION_DOWN", "ACTION_RIGHT", "ACTION_SELECT"}

TerminalActionSets == TerminalAction(SetsActions, {DiskSets})

NextSets == MakeSetAvailable \/ AddCustomSet \/ ToggleOsk \/ TerminalActionSets

SpecSets == InitSets /\ [][NextSets]_vars

\* CONTROL, the first of the special sets
ControlSet(o) == o.all_special_sets[find_control_set(o)]

NumActionKeys == Len(osk_special_set_action_keys)

\* C18: every step, which holds at most one invocation of
\* osk_make_set_available, osk_add_custom_set or osk_remove_custom_set,
\* changes the length of CONTROL by at most one, and CONTROL always has at
\* least its 11 action keys.
C18_ControlLengthSteps ==
    /\ ControlSet(osk).length >= NumActionKeys
    /\ [][/\ ControlSet(osk').length - ControlSet(osk).length \in {-1, 0, 1}
          /\ ControlSet(osk').length >= NumActionKeys]_vars

\* the key of CONTROL after the action keys, NULL if there is none
FirstDynamicKey(o) ==
    IF ControlSet(o).length > NumActionKeys
    THEN ControlSet(o).keys[NumActionKeys + 1]
    ELSE NULL

LoadGitKey ==
    SpecialKey(<<"+", "git">>, "SK_LOAD_FILE", PathGit, "SDLK_UNKNOWN", KMOD_NONE,
               "CMD_NONE")

UnloadGitKey ==
    SpecialKey(<<"-", "git">>, "SK_UNLOAD_FILE", <<"git">>, "SDLK_UNKNOWN", KMOD_NONE,
               "CMD_NONE")

\* no set is available and CONTROL has its 11 action keys and no other
ControlBare(o) ==
    /\ Len(o.available_dynamic_key_sets) = 0
    /\ ControlSet(o).length = NumActionKeys

\* git is the one available set and CONTROL has the 11 action keys and the
\* one key k
ControlPlus(o, k) ==
    /\ Len(o.available_dynamic_key_sets) = 1
    /\ o.available_dynamic_key_sets[1].file_path = PathGit
    /\ ControlSet(o).length = NumActionKeys + 1
    /\ FirstDynamicKey(o).type = k.type
    /\ FirstDynamicKey(o) = k

\* the step selects the -git key of CONTROL
IsSelectUnloadGit ==
    /\ IsSelect
    /\ SelectedKey(osk).type = "SK_UNLOAD_FILE"
    /\ SelectedKey(osk).sequence = <<"git">>

\* C19: from a CONTROL of 11 action keys with no set available,
\* osk_make_set_available of git.keys adds the one key +git that loads it;
\* with git the one available set and +git its key, osk_add_custom_set of
\* git.keys, which is readable and has keys, turns the key into -git and
\* leaves git as the loaded names; with -git in its place,
\* osk_remove_custom_set of git turns the key back into +git and leaves no
\* loaded name.
C19_GitLifecycle ==
    [][/\ (sent'.action = "osk_make_set_available" /\ ControlBare(osk))
            => ControlPlus(osk', LoadGitKey)
       /\ (sent'.action = "osk_add_custom_set" /\ ControlPlus(osk, LoadGitKey))
            => /\ ControlPlus(osk', UnloadGitKey)
               /\ osk'.loaded_key_set_names = << <<"git">> >>
       /\ (IsSelectUnloadGit /\ ControlPlus(osk, UnloadGitKey))
            => /\ ControlPlus(osk', LoadGitKey)
               /\ osk'.loaded_key_set_names = <<>>]_vars

\* git was made available, loaded and has just been unloaded by its -git key
C19_Witness ==
    /\ sent.action = "ACTION_SELECT"
    /\ ControlPlus(osk, LoadGitKey)
    /\ osk.loaded_key_set_names = <<>>
    /\ Len(osk.all_special_sets) = 1
    /\ osk.mode = OSK_MODE_SPECIAL
    /\ osk.set_idx = 0
    /\ osk.char_idx = NumActionKeys

-----------------------------------------------------------------------------
(* Controller buttons and the button repeat.  The time of SDL_GetTicks is
   left out: a repeat that is set up may fire in any later loop iteration. *)

\* controller_button_map with the buttons of config.h
controller_button_map ==
    [button \in {"DPAD_UP", "DPAD_DOWN", "DPAD_LEFT", "DPAD_RIGHT", "A", "B", "X",
                 "Y", "BACK", "START", "LEFTSTICK", "RIGHTSTICK"} |->
        CASE button = "DPAD_UP" -> "ACTION_UP"
          [] button = "DPAD_DOWN" -> "ACTION_DOWN"
          [] button = "DPAD_LEFT" -> "ACTION_LEFT"
          [] button = "DPAD_RIGHT" -> "ACTION_RIGHT"
          [] button = "A" -> "ACTION_SELECT"
          [] button = "B" -> "ACTION_BACK"
          [] button = "X" -> "ACTION_TOGGLE_OSK"
          [] button = "Y" -> "ACTION_SPACE"
          [] button = "BACK" -> "ACTION_TAB"
          [] button = "START" -> "ACTION_ENTER"
          [] button = "LEFTSTICK" -> "ACTION_SCROLL_UP"
          [] button = "RIGHTSTICK" -> "ACTION_SCROLL_DOWN"]

HELD_MODIFIER_SHIFT_BUTTON == "LEFTSHOULDER"
HELD_MODIFIER_CTRL_BUTTON == "RIGHTSHOULDER"

map_cbutton_to_action(button) ==
    IF button \in DOMAIN controller_button_map
    THEN controller_button_map[button]
    ELSE "ACTION_NONE"

get_action_for_button_with_mode(button, osk_active) ==
    IF ~osk_active /\ button = HELD_MODIFIER_SHIFT_BUTTON THEN "ACTION_SCROLL_UP"
    ELSE IF ~osk_active /\ button = HELD_MODIFIER_CTRL_BUTTON
    THEN "ACTION_SCROLL_DOWN"
    ELSE map_cbutton_to_action(button)

\* what an event handler works on: the terminal, the keyboard, the repeat
\* state, the key and text events handed to the PTY encoder so far, and the
\* bytes written to the PTY without the encoder
Handling(t, o, r) ==
    [term |-> t, osk |-> o, repeat_state |-> r, events |-> <<>>,
     written |-> <<>>]

\* the keyboard and the events of the input functions' state s, put back
after_input(c, s) == [c EXCEPT !.osk = s.osk, !.events = s.sent]

\* handle_terminal_action, the scroll actions included
handle_terminal_action(c, action, env) ==
    CASE action = "ACTION_SCROLL_UP" ->
           [c EXCEPT !.term =
               terminal_scroll_view(@, SDL_max(1, c.term.rows \div 2))]
      [] action = "ACTION_SCROLL_DOWN" ->
           [c EXCEPT !.term = terminal_scroll_view(@, -MOUSE_WHEEL_SCROLL_AMOUNT)]
      [] OTHER ->
           after_input(c, event_handle_terminal_action(Start(c.osk), action, env))

process_and_repeat_action(c, action, env) ==
    IF action = "ACTION_NONE" THEN c
    ELSE IF c.repeat_state.is_held /\ c.repeat_state.action = action THEN c
    ELSE [handle_terminal_action(c, action, env)
          EXCEPT !.repeat_state = [is_held |-> TRUE, action |-> action]]

stop_repeating_action(c, action) ==
    IF c.repeat_state.is_held /\ c.repeat_state.action = action
    THEN [c EXCEPT !.repeat_state.is_held = FALSE]
    ELSE c

\* handle_held_modifier_button: true if the button is a modifier button
is_held_modifier_button(button) ==
    button \in {HELD_MODIFIER_SHIFT_BUTTON, HELD_MODIFIER_CTRL_BUTTON}

held_modifier_button(c, button, pressed) ==
    [c EXCEPT !.osk = handle_held_modifier(
        @, IF button = HELD_MODIFIER_SHIFT_BUTTON THEN "shift" ELSE "ctrl",
        pressed)]

\* handle_event on the controller buttons without the test of read_only
handle_button_event_writable(c, button, pressed, ro, env) ==
    IF pressed /\ map_cbutton_to_action(button) = "ACTION_TOGGLE_OSK"
    THEN [c EXCEPT !.osk = toggle_osk_state(@)]
    ELSE IF c.osk.active /\ is_held_modifier_button(button)
    THEN held_modifier_button(c, button, pressed)
    ELSE IF pressed
    THEN process_and_repeat_action(
             c, get_action_for_button_with_mode(button, c.osk.active), env)
    ELSE stop_repeating_action(
             c, get_action_for_button_with_mode(button, c.osk.active))

\* handle_event on SDL_CONTROLLERBUTTONDOWN (pressed) and
\* SDL_CONTROLLERBUTTONUP of button
handle_button_event(c, button, pressed, ro, env) ==
    IF pressed /\ map_cbutton_to_action(button) = "ACTION_TOGGLE_OSK"
    THEN [c EXCEPT !.osk = toggle_osk_state(@)]
    ELSE IF ro THEN c
    ELSE IF c.osk.active /\ is_held_modifier_button(button)
    THEN held_modifier_button(c, button, pressed)
    ELSE IF pressed
    THEN process_and_repeat_action(
             c, get_action_for_button_with_mode(button, c.osk.active), env)
    ELSE stop_repeating_action(
             c, get_action_for_button_with_mode(button, c.osk.active))

\* main_loop: the repeat that is due is handled again
repeat_due(c, env) ==
    IF c.repeat_state.is_held
    THEN handle_terminal_action(c, c.repeat_state.action, env)
    ELSE c

\* the variables take the outcome c of handling the event ev; a press that
\* set the repeat state is remembered as the one that started the repeat
Handled(c, ev) ==
    /\ term' = c.term
    /\ osk' = c.osk
    /\ repeat_state' = c.repeat_state
    /\ sent' = [action |-> ev.type, events |-> c.events]
    /\ event' = ev
    /\ started_by' = IF ev.type = "SDL_CONTROLLERBUTTONDOWN"
                        /\ c.repeat_state # repeat_state
                     THEN ev.button ELSE started_by
    /\ written' = c.written
    /\ UNCHANGED <<pending, nwrites, nuser, fed, alt_entry, read_only>>

-----------------------------------------------------------------------------
(* SpecResponse: the responses of the parser and the flush of the main loop *)

\* the bytes write(master_fd, response_buffer, response_len) hands to the PTY
pty_response(t) ==
    IF t.response_len > 0
    THEN SubSeq(t.response_buffer, 1,
                SDL_min(t.response_len, Len(t.response_buffer)))
    ELSE <<>>

\* the flush of main_loop, with the bytes it writes
flush_written(t, out) ==
    [term |-> flush_response(t), written |-> out \o pty_response(t)]

\* a loop that flushes the response after every byte of the window
RECURSIVE main_loop_flush_each_byte(_, _)
main_loop_flush_each_byte(t, buf) ==
    IF buf = <<>> THEN [term |-> t, written |-> <<>>]
    ELSE flush_written(
             terminal_handle_input(
                 main_loop_flush_each_byte(t, SubSeq(buf, 1, Len(buf) - 1)).term,
                 <<buf[Len(buf)]>>),
             main_loop_flush_each_byte(t, SubSeq(buf, 1, Len(buf) - 1)).written)

\* one iteration of main_loop whose read returns buf: the view is reset, the
\* window is parsed, then the response is written and response_len reset
main_loop_iteration(t, buf) ==
    flush_written(
        terminal_handle_input(
            IF t.view_offset # 0 THEN [t EXCEPT !.view_offset = 0] ELSE t, buf),
        <<>>)

\* one loop iteration whose read returns the next n bytes; the bytes of the
\* flush are kept in written
PtyReadRespond ==
    /\ pending # <<>>
    /\ \E n \in 1..Len(pending) :
         \E done \in {main_loop_iteration(term, SubSeq(pending, 1, n))} :
            /\ term' = done.term
            /\ written' = done.written
            /\ pending' = SubSeq(pending, n + 1, Len(pending))
    /\ event' = [type |-> "read", button |-> "none"]
    /\ UNCHANGED <<nwrites, nuser, fed, alt_entry, osk, sent, repeat_state,
                   read_only, buttons, started_by>>

ResponseStreams ==
    { CSI(<<54, 110>>),                               \* CSI 6 n
      <<97>> \o CSI(<<54, 110>>) \o <<98>>,           \* a CSI 6 n b
      CSI(<<54, 110>>) \o <<97>> \o CSI(<<54, 110>>), \* CSI 6 n a CSI 6 n
      CSI(<<99>>) \o CSI(<<49, 56, 116>>),            \* CSI c  CSI 18 t
      <<97, 98>> }

InitResponse == Init /\ term = terminal_create(2, 3, 1)

WriteResponse == ShellWrite(ResponseStreams)

NextResponse == WriteResponse \/ PtyReadRespond

SpecResponse == InitResponse /\ [][NextResponse]_vars

\* the step is a read of the main loop
IsRead == nwrites' = nwrites /\ pending' # pending

\* the window the read of the step returned
ReadWindow == SubSeq(pending, 1, Len(pending) - Len(pending'))

\* the step wrote the response the parser left in parsed, the terminal after
\* the whole window, and reset response_len
FlushedAfter(parsed) ==
    /\ written' = IF parsed.response_len > 0
                  THEN SubSeq(parsed.response_buffer, 1, parsed.response_len)
                  ELSE <<>>
    /\ term' = [parsed EXCEPT !.response_len = 0]

\* C23: no response is pending when a read starts, and the iteration of the
\* read writes to the PTY the response that the parser has produced by the
\* end of the whole window, and leaves response_len = 0
C23_ResponseFlushedAfterWindow ==
    [][IsRead =>
          /\ term.response_len = 0
          /\ FlushedAfter(terminal_handle_input(
                 IF term.view_offset # 0 THEN [term EXCEPT !.view_offset = 0]
                 ELSE term, ReadWindow))
          /\ term'.response_len = 0]_vars

\* a read has written the cursor position report ESC [ 1 ; 2 R of a window
\* that went on after the request, and bytes are left for the next read
C23_Witness ==
    /\ event.type = "read"
    /\ written = <<ESC, 91, 49, 59, 50, 82>>
    /\ term.response_len = 0
    /\ term.cursor_x = 2
    /\ pending # <<>>

-----------------------------------------------------------------------------
(* The key encoder: send_key_event as the bytes it writes to the PTY.  A key
   is its SDL_Keycode, a modifier state a subset of KMOD_CTRL, KMOD_ALT,
   KMOD_SHIFT and KMOD_GUI. *)

\* SDL_SCANCODE_TO_KEYCODE
ScancodeKey(scancode) == 1073741824 + scancode

\* the SDL keycodes the input code names
SDLK ==
    [BACKSPACE |-> 8, TAB |-> 9, RETURN |-> 13, ESCAPE |-> 27, SPACE |-> 32,
     DELETE |-> 127,
     F1 |-> ScancodeKey(58), F2 |-> ScancodeKey(59), F3 |-> ScancodeKey(60),
     F4 |-> ScancodeKey(61), F5 |-> ScancodeKey(62), F6 |-> ScancodeKey(63),
     F7 |-> ScancodeKey(64), F8 |-> ScancodeKey(65), F9 |-> ScancodeKey(66),
     F10 |-> ScancodeKey(67), F11 |-> ScancodeKey(68), F12 |-> ScancodeKey(69),
     PRINTSCREEN |-> ScancodeKey(70), SCROLLLOCK |-> ScancodeKey(71),
     PAUSE |-> ScancodeKey(72), INSERT |-> ScancodeKey(73),
     HOME |-> ScancodeKey(74), PAGEUP |-> ScancodeKey(75),
     END |-> ScancodeKey(77), PAGEDOWN |-> ScancodeKey(78),
     RIGHT |-> ScancodeKey(79), LEFT |-> ScancodeKey(80),
     DOWN |-> ScancodeKey(81), UP |-> ScancodeKey(82),
     KP_ENTER |-> ScancodeKey(88)]

isalpha(c) == c \in 65..90 \/ c \in 97..122

toupper(c) == IF c \in 97..122 THEN c - 32 ELSE c

\* the character of a printable key under the modifier state
key_char(sym, mod) ==
    IF "KMOD_SHIFT" \in mod /\ isalpha(sym) THEN toupper(sym) ELSE sym

\* Priority 1: the bytes of a Ctrl combination, NULL if no rule matches
ctrl_key_sequence(sym) ==
    CASE sym \in 97..122 -> <<sym - 97 + 1>>
      [] sym = SDLK.SPACE -> <<0>>
      [] sym = SDLK.LEFT -> <<ESC, 91, 49, 59, 53, 68>>
      [] sym = SDLK.RIGHT -> <<ESC, 91, 49, 59, 53, 67>>
      [] sym = SDLK.UP -> <<ESC, 91, 49, 59, 53, 65>>
      [] sym = SDLK.DOWN -> <<ESC, 91, 49, 59, 53, 66>>
      [] OTHER -> NULL

\* Priority 2: the bytes of an Alt combination, NULL if no rule matches
alt_key_sequence(sym, mod) ==
    CASE sym \in 32..122 \/ sym \in 48..57 -> <<ESC, key_char(sym, mod)>>
      [] sym = SDLK.BACKSPACE -> <<ESC, 127>>
      [] OTHER -> NULL

\* Priority 3: the keys of the application cursor keys mode
app_key_sequence(sym) ==
    CASE sym = SDLK.UP -> <<ESC, 79, 65>>
      [] sym = SDLK.DOWN -> <<ESC, 79, 66>>
      [] sym = SDLK.RIGHT -> <<ESC, 79, 67>>
      [] sym = SDLK.LEFT -> <<ESC, 79, 68>>
      [] sym = SDLK.HOME -> <<ESC, 79, 72>>
      [] sym = SDLK.END -> <<ESC, 79, 70>>
      [] OTHER -> NULL

\* ESC [ digits ~
TildeKey(digits) == <<ESC, 91>> \o digits \o <<126>>

\* Priority 4: the standard special keys
special_key_sequence(sym) ==
    CASE sym = SDLK.RETURN \/ sym = SDLK.KP_ENTER -> <<13>>
      [] sym = SDLK.BACKSPACE -> <<127>>
      [] sym = SDLK.TAB -> <<9>>
      [] sym = SDLK.ESCAPE -> <<ESC>>
      [] sym = SDLK.SPACE -> <<32>>
      [] sym = SDLK.PAGEUP -> TildeKey(<<53>>)
      [] sym = SDLK.PAGEDOWN -> TildeKey(<<54>>)
      [] sym = SDLK.UP -> <<ESC, 91, 65>>
      [] sym = SDLK.DOWN -> <<ESC, 91, 66>>
      [] sym = SDLK.RIGHT -> <<ESC, 91, 67>>
      [] sym = SDLK.LEFT -> <<ESC, 91, 68>>
      [] sym = SDLK.HOME -> TildeKey(<<49>>)
      [] sym = SDLK.END -> TildeKey(<<52>>)
      [] sym = SDLK.INSERT -> TildeKey(<<50>>)
      [] sym = SDLK.DELETE -> TildeKey(<<51>>)
      [] sym = SDLK.F1 -> <<ESC, 79, 80>>
      [] sym = SDLK.F2 -> <<ESC, 79, 81>>
      [] sym = SDLK.F3 -> <<ESC, 79, 82>>
      [] sym = SDLK.F4 -> <<ESC, 79, 83>>
      [] sym = SDLK.F5 -> TildeKey(<<49, 53>>)
      [] sym = SDLK.F6 -> TildeKey(<<49, 55>>)
      [] sym = SDLK.F7 -> TildeKey(<<49, 56>>)
      [] sym = SDLK.F8 -> TildeKey(<<49, 57>>)
      [] sym = SDLK.F9 -> TildeKey(<<50, 48>>)
      [] sym = SDLK.F10 -> TildeKey(<<50, 49>>)
      [] sym = SDLK.F11 -> TildeKey(<<50, 51>>)
      [] sym = SDLK.F12 -> TildeKey(<<50, 52>>)
      [] sym = SDLK.PRINTSCREEN -> TildeKey(<<50, 57>>)
      [] sym = SDLK.SCROLLLOCK -> TildeKey(<<51, 49>>)
      [] sym = SDLK.PAUSE -> TildeKey(<<51, 50>>)
      [] OTHER -> NULL

\* Priority 5: the printable characters
printable_key_sequence(sym, mod) ==
    IF sym \in 32..126 THEN <<key_char(sym, mod)>> ELSE <<>>

\* send_key_event: the bytes written for the key sym under the modifier state
\* mod, app telling whether the application cursor keys mode is on
send_key_event_write(sym, mod, app) ==
    IF "KMOD_CTRL" \in mod /\ ctrl_key_sequence(sym) # NULL
    THEN ctrl_key_sequence(sym)
    ELSE IF "KMOD_ALT" \in mod /\ alt_key_sequence(sym, mod) # NULL
    THEN alt_key_sequence(sym, mod)
    ELSE IF app /\ app_key_sequence(sym) # NULL THEN app_key_sequence(sym)
    ELSE IF special_key_sequence(sym) # NULL THEN special_key_sequence(sym)
    ELSE printable_key_sequence(sym, mod)

\* handle_key_down: a printable key without Ctrl, Alt or Gui is left to
\* SDL_TEXTINPUT
handle_key_down(sym, mod, app) ==
    IF mod \cap {"KMOD_CTRL", "KMOD_ALT", "KMOD_GUI"} = {} /\ sym \in 32..122
    THEN <<>>
    ELSE send_key_event_write(sym, mod, app)

-----------------------------------------------------------------------------
(* SpecKeys: the encoder on every printable key and every special key, under
   every modifier state.  Init draws the key; one step encodes it, either as
   send_key_event is called by the keyboard code or on the key-down path. *)

Keymods == SUBSET {"KMOD_CTRL", "KMOD_ALT", "KMOD_SHIFT", "KMOD_GUI"}

Keycodes == (32..126) \cup {SDLK[k] : k \in DOMAIN SDLK}

InitKeys ==
    /\ \E app \in BOOLEAN :
          term = [terminal_create(2, 2, 0)
                  EXCEPT !.application_cursor_keys_mode = app]
    /\ pending = <<>>
    /\ nwrites = 0
    /\ nuser = 0
    /\ fed = <<>>
    /\ alt_entry = NULL
    /\ osk = osk_create(ExampleLayers)
    /\ sent = NothingSent
    /\ repeat_state = [is_held |-> FALSE, action |-> "ACTION_NONE"]
    /\ read_only = FALSE
    /\ buttons = {}
    /\ started_by = "none"
    /\ written = <<>>
    /\ \E sym \in Keycodes, mod \in Keymods :
          event = [type |-> "key", sym |-> sym, mod |-> mod]

\* send_key_event is called with the key
SendKeyEvent ==
    /\ event.type = "key"
    /\ written' = send_key_event_write(event.sym, event.mod,
                                       term.application_cursor_keys_mode)
    /\ event' = [event EXCEPT !.type = "send_key_event"]
    /\ UNCHANGED <<term, pending, nwrites, nuser, fed, alt_entry, osk, sent,
                   repeat_state, read_only, buttons, started_by>>

\* handle_key_down is called with the SDL_KEYDOWN event of the key
KeyDownPath ==
    /\ event.type = "key"
    /\ written' = handle_key_down(event.sym, event.mod,
                                  term.application_cursor_keys_mode)
    /\ event' = [event EXCEPT !.type = "SDL_KEYDOWN"]
    /\ UNCHANGED <<term, pending, nwrites, nuser, fed, alt_entry, osk, sent,
                   repeat_state, read_only, buttons, started_by>>

NextKeys == SendKeyEvent \/ KeyDownPath

SpecKeys == InitKeys /\ [][NextKeys]_vars

\* the key is printable ASCII, SPACE through ~
IsPrintableKey == event.sym \in 32..126

\* a Ctrl rule of the encoder matches the key
CtrlRuleMatches ==
    "KMOD_CTRL" \in event.mod /\ ctrl_key_sequence(event.sym) # NULL

\* C24: a printable key or digit sent with Alt that no Ctrl rule matches is
\* encoded as ESC and the character, in upper case if Shift is held too
C24_AltPrintableIsEscChar ==
    (/\ event.type = "send_key_event"
     /\ IsPrintableKey
     /\ "KMOD_ALT" \in event.mod
     /\ ~CtrlRuleMatches)
    => written = <<ESC, IF "KMOD_SHIFT" \in event.mod
                        THEN toupper(event.sym) ELSE event.sym>>

\* C25: on the key-down path nothing is written for a printable key that
\* carries no Ctrl, Alt or Gui
C25_PlainPrintableDropped ==
    (/\ event.type = "SDL_KEYDOWN"
     /\ IsPrintableKey
     /\ event.mod \cap {"KMOD_CTRL", "KMOD_ALT", "KMOD_GUI"} = {})
    => written = <<>>

-----------------------------------------------------------------------------
(* SpecInput: controller buttons, keyboard keys and text input through
   handle_event, with and without --read-only *)

\* key_map
map_keyboard_to_action(sym) ==
    CASE sym = SDLK.F12 -> "ACTION_TOGGLE_OSK"
      [] sym = SDLK.ESCAPE -> "ACTION_BACK"
      [] sym = SDLK.RETURN -> "ACTION_ENTER"
      [] sym = SDLK.KP_ENTER -> "ACTION_ENTER"
      [] sym = SDLK.BACKSPACE -> "ACTION_BACK"
      [] sym = SDLK.TAB -> "ACTION_TAB"
      [] sym = SDLK.PAGEUP -> "ACTION_SCROLL_UP"
      [] sym = SDLK.PAGEDOWN -> "ACTION_SCROLL_DOWN"
      [] OTHER -> "ACTION_NONE"

\* handle_event, SDL_KEYDOWN while the OSK is active: the key navigates
osk_key_action(sym) ==
    CASE sym = SDLK.UP -> "ACTION_UP"
      [] sym = SDLK.DOWN -> "ACTION_DOWN"
      [] sym = SDLK.LEFT -> "ACTION_LEFT"
      [] sym = SDLK.RIGHT -> "ACTION_RIGHT"
      [] sym = SDLK.RETURN \/ sym = SDLK.KP_ENTER -> "ACTION_SELECT"
      [] sym = SDLK.BACKSPACE -> "ACTION_BACK"
      [] sym = SDLK.TAB -> "ACTION_TAB"
      [] sym = SDLK.ESCAPE -> "ACTION_BACK"
      [] OTHER -> "ACTION_NONE"

\* handle_event on SDL_KEYDOWN of the key sym with the modifier state mod
handle_keydown_event(c, sym, mod, ro, env) ==
    IF map_keyboard_to_action(sym) = "ACTION_TOGGLE_OSK"
    THEN [c EXCEPT !.osk = toggle_osk_state(@)]
    ELSE IF ro THEN c
    ELSE IF c.osk.active
    THEN IF osk_key_action(sym) # "ACTION_NONE"
         THEN after_input(c, event_handle_terminal_action(
                                 Start(c.osk), osk_key_action(sym), env))
         ELSE c
    ELSE IF map_keyboard_to_action(sym) # "ACTION_NONE"
    THEN handle_terminal_action(c, map_keyboard_to_action(sym), env)
    ELSE [c EXCEPT !.written =
             handle_key_down(sym, mod, c.term.application_cursor_keys_mode)]

\* handle_event on SDL_TEXTINPUT
handle_textinput_event(c, text, ro) ==
    IF ro THEN c ELSE [c EXCEPT !.written = text]

\* the buttons of the model: the Shift button, the OSK toggle and select.
\* START is left out, so that the exit combination BACK + START is never down
Buttons == {"LEFTSHOULDER", "X", "A"}

\* a button that is up goes down
ButtonDown ==
    \E button \in Buttons \ buttons, env \in Envs({DiskOsk}) :
       /\ buttons' = buttons \cup {button}
       /\ Handled(handle_button_event(Handling(term, osk, repeat_state),
                                      button, TRUE, read_only, env),
                  [type |-> "SDL_CONTROLLERBUTTONDOWN", button |-> button])

\* a button that is down goes up
ButtonUp ==
    \E button \in buttons, env \in Envs({DiskOsk}) :
       /\ buttons' = buttons \ {button}
       /\ Handled(handle_button_event(Handling(term, osk, repeat_state),
                                      button, FALSE, read_only, env),
                  [type |-> "SDL_CONTROLLERBUTTONUP", button |-> button])

\* a loop iteration in which the repeat is due
RepeatTick ==
    /\ repeat_state.is_held
    /\ \E env \in Envs({DiskOsk}) :
          Handled(repeat_due(Handling(term, osk, repeat_state), env),
                  [type |-> "repeat", button |-> "none"])
    /\ UNCHANGED buttons

\* the keys of the model: F12, Return, a and {
InputKeys == {SDLK.F12, SDLK.RETURN, 97, 123}

\* a key of the keyboard goes down
KeyboardKey ==
    /\ \E sym \in InputKeys, mod \in {{}, {"KMOD_ALT"}}, env \in Envs({DiskOsk}) :
          Handled(handle_keydown_event(Handling(term, osk, repeat_state),
                                       sym, mod, read_only, env),
                  [type |-> "SDL_KEYDOWN", button |-> "none"])
    /\ UNCHANGED buttons

\* the OS delivers the text of a keystroke
TextInput ==
    /\ \E text \in {<<97>>, <<123>>} :
          Handled(handle_textinput_event(Handling(term, osk, repeat_state),
                                         text, read_only),
                  [type |-> "SDL_TEXTINPUT", button |-> "none"])
    /\ UNCHANGED buttons

InitInput ==
    /\ term = terminal_create(2, 2, 0)
    /\ pending = <<>>
    /\ nwrites = 0
    /\ nuser = 0
    /\ fed = <<>>
    /\ alt_entry = NULL
    /\ osk = osk_create(ExampleLayers)
    /\ sent = NothingSent
    /\ repeat_state = [is_held |-> FALSE, action |-> "ACTION_NONE"]
    /\ read_only \in BOOLEAN
    /\ buttons = {}
    /\ event = [type |-> "none", button |-> "none"]
    /\ started_by = "none"
    /\ written = <<>>

NextInput == ButtonDown \/ ButtonUp \/ RepeatTick \/ KeyboardKey \/ TextInput

SpecInput == InitInput /\ [][NextInput]_vars

\* C21: a repeat is set up only while the button that started it is down, so
\* that after the release of that button no repeat of its action is invoked
C21_RepeatOnlyWhileHeld ==
    repeat_state.is_held => started_by \in buttons

\* C22: the held flag of Shift and of Ctrl is set only while the modifier's
\* button is down
C22_HeldOnlyWhilePressed ==
    /\ osk.held_shift => HELD_MODIFIER_SHIFT_BUTTON \in buttons
    /\ osk.held_ctrl => HELD_MODIFIER_CTRL_BUTTON \in buttons

\* C26: in read-only mode an event hands nothing to the PTY encoder and
\* writes no byte to the PTY, and no repeat is set up that could do so later
C26_ReadOnlyWritesNothing ==
    read_only =>
        /\ sent.events = <<>>
        /\ written = <<>>
        /\ ~repeat_state.is_held

\* in read-only mode the select button went down while the OSK was active
C26_Witness ==
    /\ read_only
    /\ osk.active
    /\ event = [type |-> "SDL_CONTROLLERBUTTONDOWN", button |-> "A"]

-----
(* SpecStbm: DECSTBM with every combination of a missing, zero, in-range and
   out-of-range top and bottom, between line feeds, a reset and a font
   change. *)

\* the DECSTBM parameters: missing, 0, 2, 3 and, for the bottom, 4
StbmTops == { <<>>, <<48>>, <<50>>, <<51>> }
StbmBottoms == StbmTops \cup { <<52>> }

StbmStreams ==
    { CSI(p1 \o <<59>> \o p2 \o <<114>>) : p1 \in StbmTops, p2 \in StbmBottoms }
    \cup { CSI(<<51, 114>>), <<10, 10, 10>> }

InitStbm == Init /\ term = terminal_create(2, 3, 1)

WriteStbm == ShellWrite(StbmStreams)

NextStbm == WriteStbm \/ PtyRead \/ Resize \/ CmdReset

SpecStbm == InitStbm /\ [][NextStbm]_vars

-----
(* Scrolling the whole normal screen upward, under SpecScroll *)

\* the scroll region of t is the full screen and the normal screen is active
FullNormalScreen(t) ==
    /\ ~t.alt_screen_active
    /\ t.scroll_top = 1 /\ t.scroll_bottom = t.rows

\* history_size of t after n more lines were appended
history_after(t, n) == SDL_min(t.history_size + n, t.scrollback)

\* this step's read ended with a line feed on the bottom row
EndsWithNewlineAtBottom ==
    /\ LastStep.before.parse_state = STATE_NORMAL
    /\ LastStep.c = 10
    /\ LastStep.before.cursor_y = LastStep.before.rows - 1

\* the part of C28 about the newline at the bottom row
NewlineFeedsHistory ==
    [][ (EndsWithNewlineAtBottom /\ FullNormalScreen(LastStep.before))
        => term'.history_size = history_after(LastStep.before, 1) ]_vars

\* C28: lines scrolled upward out of the full normal screen, by a newline at
\* the bottom row or by CSI S, are appended to the history
C28_ScrollUpFeedsHistory ==
    [][ /\ (EndsWithNewlineAtBottom /\ FullNormalScreen(LastStep.before))
            => term'.history_size = history_after(LastStep.before, 1)
        /\ (EndsWithCsi(83, 0) /\ FullNormalScreen(LastStep.before))
            => term'.history_size =
                 history_after(LastStep.before,
                               SDL_min(P1or1(LastStep.before),
                                       LastStep.before.rows))
      ]_vars

-----
(* SpecMove: CSI A and CSI B from cursor rows inside and outside a restricted
   scroll region *)

MoveStreams ==
    { CSI(<<50, 59, 51, 114>>),            \* CSI 2;3 r
      CSI(<<49, 59, 50, 114>>) \o CSI(<<51, 59, 49, 72>>),
                                           \* CSI 1;2 r  CSI 3;1 H
      CSI(<<50, 59, 49, 72>>),             \* CSI 2;1 H
      CSI(<<65>>),                         \* CSI A
      CSI(<<50, 65>>),                     \* CSI 2 A
      CSI(<<66>>),                         \* CSI B
      CSI(<<50, 66>>),                     \* CSI 2 B
      <<10, 10>>                           \* LF LF
    }

InitMove == Init /\ term = terminal_create(2, 3, 1)

WriteMove == ShellWrite(MoveStreams)

NextMove == WriteMove \/ PtyRead

SpecMove == InitMove /\ [][NextMove]_vars

\* row `to` is where a move of p rows from row `from` in direction dir (-1 up,
\* 1 down) ends: p rows away, or earlier on one of the boundary rows `edges` of the
\* scroll region or of the screen
MovedOrStopped(from, to, dir, p, edges) ==
    \/ to = from + dir * p
    \/ to \in edges /\ (to - from) * dir >= 0 /\ (to - from) * dir < p

\* the part of C29 that holds for a cursor inside the scroll region
MoveInsideRegion ==
    [][ ( /\ LastStep.before.parse_state = STATE_CSI
          /\ LastStep.before.csi_private_marker = 0
          /\ LastStep.c \in {65, 66}
          /\ InRegion(LastStep.before) )
        => MovedOrStopped(LastStep.before.cursor_y, term'.cursor_y,
                          IF LastStep.c = 65 THEN -1 ELSE 1,
                          P1or1(LastStep.before),
                          { LastStep.before.scroll_top - 1,
                            LastStep.before.scroll_bottom - 1,
                            0, LastStep.before.rows - 1 }) ]_vars

\* C29: CSI A moves the cursor up and CSI B moves it down by max(P1, 1) rows
\* or less far to a boundary of the scroll region or of the screen; CSI A
\* never increases cursor_y and CSI B never decreases it
C29_UpDownByP1Clamped ==
    [][ /\ EndsWithCsi(65, 0)
            => /\ term'.cursor_y <= LastStep.before.cursor_y
               /\ MovedOrStopped(LastStep.before.cursor_y, term'.cursor_y, -1,
                                 P1or1(LastStep.before),
                                 { LastStep.before.scroll_top - 1, 0 })
        /\ EndsWithCsi(66, 0)
            => /\ term'.cursor_y >= LastStep.before.cursor_y
               /\ MovedOrStopped(LastStep.before.cursor_y, term'.cursor_y, 1,
                                 P1or1(LastStep.before),
                                 { LastStep.before.scroll_bottom - 1,
                                   LastStep.before.rows - 1 })
      ]_vars

-----
(* SpecCharset: charset designations ESC ( and ESC ) read in pieces of every
   size.  The bytes 0, B and A occur in the streams as designators only. *)

CharsetStreams ==
    { <<ESC, 40, 48, 113>>,                \* ESC ( 0  q
      <<ESC, 41, 48, 113>>,                \* ESC ) 0  q
      <<ESC, 40, 66, 113>>,                \* ESC ( B  q
      <<ESC, 40, 65, 113>>,                \* ESC ( A  q
      <<14, 113>>,                         \* SO q
      <<15, 113>>                          \* SI q
    }

Designators == {48, 66, 65}

InitCharset == Init /\ term = terminal_create(4, 2, 1)

WriteCharset == ShellWrite(CharsetStreams)

NextCharset == WriteCharset \/ PtyRead

SpecCharset == InitCharset /\ [][NextCharset]_vars

\* C30: the byte after ESC ( or ESC ) is consumed as the designator and is
\* never written to the grid, wherever the reads end: no cell of the screen
\* holds a designator
C30_DesignatorNotPrinted ==
    \A y \in 0..(term.rows - 1), x \in 0..(term.cols - 1) :
        Visible(term)[y][x].character \notin Designators

-----
(* SpecOsc: OSC sequences that are no palette assignment, between text, SGR
   and a palette assignment *)

\* ESC ] payload BEL
OSC(payload) == <<ESC, 93>> \o payload \o <<BEL>>

\* OSC sequences whose payload is no valid 4;N;spec assignment, with
\* printable ASCII payloads
PlainOscStreams ==
    { OSC(<<48, 59, 97, 98>>),                         \* OSC 0;ab BEL
      <<ESC, 93, 48, 59, 97, 98, ESC, 92>>,            \* OSC 0;ab ST
      OSC(<<52, 59, 49, 59, 122, 122>>),               \* OSC 4;1;zz BEL
      OSC(<<52, 59, 49, 54, 59, 35, 102, 102, 102, 102, 102, 102>>),
                                                       \* OSC 4;16;#ffffff BEL
      OSC(<<>>)                                        \* OSC BEL
    }

\* titles with a two-byte UTF-8 character and with a line feed in them
TitleOscStreams ==
    { OSC(<<48, 59, 195, 169, 98>>),                   \* OSC 0; U+00E9 b BEL
      OSC(<<48, 59, 97, 10, 98>>)                      \* OSC 0;a LF b BEL
    }

DiscardedOscStreams == PlainOscStreams \cup TitleOscStreams

OscStreams ==
    DiscardedOscStreams
    \cup { <<97, 98>>,                                 \* ab
           CSI(<<51, 49, 109>>),                       \* CSI 31 m
           OSC(<<52, 59, 49, 59, 35, 49, 50, 51, 52, 53, 54>>)
                                                       \* OSC 4;1;#123456 BEL
         }

InitOsc == Init /\ term = terminal_create(3, 2, 1)

WriteOsc == ShellWrite(OscStreams)

NextOsc == WriteOsc \/ PtyRead

SpecOsc == InitOsc /\ [][NextOsc]_vars

\* the grid contents, cursor, attributes and palette of t
OscFrame(t) ==
    [grid |-> t.grid, alt_grid |-> t.alt_grid,
     cursor_x |-> t.cursor_x, cursor_y |-> t.cursor_y,
     fg |-> t.current_fg, bg |-> t.current_bg,
     attributes |-> t.current_attributes,
     colors |-> t.colors, xterm_colors |-> t.xterm_colors]

\* this step read all of one of the sequences of S, with the parser in the
\* Normal state and no UTF-8 character in progress
ReadsWholeOsc(S) ==
    /\ Consumed \in S
    /\ term.parse_state = STATE_NORMAL
    /\ term.utf8_bytes_to_read = 0

\* the part of C31 about payloads of printable ASCII
PlainOscDiscarded ==
    [][ ReadsWholeOsc(PlainOscStreams) => OscFrame(term') = OscFrame(term) ]_vars

\* C31: an OSC sequence whose payload is no valid palette assignment changes
\* nothing of the grid contents, cursor, attributes and palette, from its
\* ESC ] to its terminator
C31_OtherOscDiscarded ==
    [][ ReadsWholeOsc(DiscardedOscStreams)
        => OscFrame(term') = OscFrame(term) ]_vars

-----
(* Dirty-line tracking, under Spec *)

\* C32: every line whose dirty bit is set has an index in 0..rows-1 and lies
\* within [dirty_min_y, dirty_max_y], with has_dirty_regions true
C32_DirtyLinesWithinBounds ==
    \A y \in DOMAIN term.dirty_lines :
        term.dirty_lines[y] =>
            /\ y \in 0..(term.rows - 1)
            /\ term.has_dirty_regions
            /\ term.dirty_min_y <= y /\ y <= term.dirty_max_y

-----
(* Cursor position reports, under SpecResponse *)

\* ESC [ y ; x R for the cursor of t
CursorReport(t) ==
    <<ESC, 91>> \o itoa(t.cursor_y + 1) \o <<59>> \o itoa(t.cursor_x + 1)
        \o <<82>>

\* the parser in state t is about to dispatch CSI 6 n with the byte c
IsCursorRequest(t, c) ==
    /\ t.parse_state = STATE_CSI
    /\ c = 110
    /\ t.csi_private_marker = 0
    /\ t.csi_params[0] = 6

\* the reports that answer the CSI 6 n requests of buf from index i on, each
\* with the cursor at the time of its request, in request order
RECURSIVE cursor_reports(_, _, _, _)
cursor_reports_next(r, buf, acc) == cursor_reports(r.t, buf, r.i + 1, acc)

cursor_reports(t, buf, i, acc) ==
    IF i >= Len(buf) THEN acc
    ELSE cursor_reports_next(process_byte(t, buf, i), buf,
                             IF IsCursorRequest(t, buf[i + 1])
                             THEN acc \o CursorReport(t) ELSE acc)

\* the cursor position reports among the bytes the step wrote
WrittenCursorReports ==
    IF written' # <<>> /\ written'[Len(written')] = 82 THEN written' ELSE <<>>

\* the part of C33 about windows with one request and no other query
OneRequestAnswered ==
    [][ (IsRead /\ ReadWindow \in { CSI(<<54, 110>>),
                                    <<97>> \o CSI(<<54, 110>>) \o <<98>> })
        => WrittenCursorReports = cursor_reports(term, ReadWindow, 0, <<>>)
      ]_vars

\* C33: every CSI 6 n the parser processes is answered by a cursor position
\* report written to the PTY, with the cursor at the time of the request, in
\* request order
C33_EveryRequestReported ==
    [][ IsRead
        => WrittenCursorReports = cursor_reports(term, ReadWindow, 0, <<>>)
      ]_vars

-----
(* The resize of a font change, under SpecScroll *)

\* the step resized the terminal to other dimensions
Resized == term'.cols # term.cols \/ term'.rows # term.rows

\* cursor at (0,0), full-screen scroll region, no history, view at the live
\* screen and every visible cell a blank in the default colours
FullyReset(t) ==
    /\ t.cursor_x = 0 /\ t.cursor_y = 0
    /\ t.scroll_top = 1 /\ t.scroll_bottom = t.rows
    /\ t.history_size = 0 /\ t.view_offset = 0
    /\ \A y \in 0..(t.rows - 1), x \in 0..(t.cols - 1) :
          Visible(t)[y][x] = Glyph(32, t.default_fg, t.default_bg, 0)

\* the part of C34 about a resize on the normal screen
ResizeResetsNormalScreen ==
    [][ (Resized /\ ~term.alt_screen_active) => FullyReset(term') ]_vars

\* C34: after a resize to different dimensions, from any state, the terminal
\* is fully reset
C34_ResizeFullyResets ==
    [][ Resized => FullyReset(term') ]_vars

-----
(* SpecChunk: the stream of the shell read in pieces of every size, with the
   bytes read so far recorded in fed *)

ChunkStreams ==
    { <<ESC, 40, 48, 113>>,                \* ESC ( 0  q
      <<ESC, 35, 56>>,                     \* ESC # 8
      CSI(<<50, 59, 50, 72>>) \o <<97>>,   \* CSI 2;2 H  a
      <<195, 169>>,                        \* U+00E9
      <<ESC, 93, 48, 59, 97, BEL>>,        \* OSC 0;a BEL
      CSI(<<63, 54, 104>>),                \* CSI ?6 h
      <<14, 113, 10>>                      \* SO q LF
    }

InitChunk == Init /\ term = terminal_create(3, 2, 1)

WriteChunk == ShellWrite(ChunkStreams)

NextChunk == WriteChunk \/ PtyReadLogged

SpecChunk == InitChunk /\ [][NextChunk]_vars

\* t without what the main loop does between two feed calls: the flush of the
\* response and the return of the view to the live screen
ParsedState(t) ==
    [t EXCEPT !.response_len = 0, !.response_buffer = <<>>, !.view_offset = 0]

\* the terminal after the bytes of fed were fed in a single call
FedAtOnce == terminal_handle_input(terminal_create(3, 2, 1), fed)

\* no ESC ( , ESC ) or ESC # is among the bytes of s
NoLookahead(s) ==
    \A k \in 1..(Len(s) - 1) : ~(s[k] = ESC /\ s[k + 1] \in {40, 41, 35})

\* the part of C35 about streams without ESC ( , ESC ) and ESC #
ChunkInvariantWithoutLookahead ==
    NoLookahead(fed) => ParsedState(term) = ParsedState(FedAtOnce)

\* C35: however the stream is split into feed calls, the terminal is in the
\* state that a single call with the whole stream gives
C35_ChunkInvariant ==
    ParsedState(term) = ParsedState(FedAtOnce)

-----
(* SpecHistory: a 2x2 terminal with two lines of scrollback, scrolled more
   often than the scrollback holds, with region scrolls, the alternate
   screen, a reset, the clear command and the view scrolled back *)

HistoryStreams ==
    { <<97, 10>>,                          \* a LF
      <<98, 10, 99, 10>>,                  \* b LF c LF
      <<100, 101, 102, 103, 104>>,         \* defgh
      CSI(<<83>>),                         \* CSI S
      CSI(<<84>>),                         \* CSI T
      <<ESC, 77>>,                         \* ESC M
      CSI(<<63, 49, 48, 52, 57, 104>>) \o <<120, 10, 10>>,
                                           \* CSI ?1049 h  x LF LF
      CSI(<<63, 49, 48, 52, 57, 108>>),    \* CSI ?1049 l
      CSI(<<50, 74>>)                      \* CSI 2 J
    }

InitHistory == Init /\ term = terminal_create(2, 2, 2)

WriteHistory == ShellWrite(HistoryStreams)

NextHistory == WriteHistory \/ PtyRead \/ ScrollView \/ CmdClear

SpecHistory == InitHistory /\ [][NextHistory]_vars

\* the step scrolled the whole normal screen up by one line
ScrolledOneLine ==
    /\ ~term.alt_screen_active
    /\ term'.history_size >= 1
    /\ \/ term'.top_line # term.top_line
       \/ term'.history_size > term.history_size

\* the line the view of t shows in its row y when it is scrolled back by v
ViewLine(t, v, y) ==
    read_line(t, terminal_get_view_line([t EXCEPT !.view_offset = v], y))

\* C36: on the normal screen the history holds the lines in the order they
\* left the screen.  A full-screen scroll makes the row that was the top row
\* the newest history line and moves every other history line one place
\* back; every other step of one byte or one user action, on either screen,
\* leaves the history lines as they are; and the view of the normal screen
\* scrolled back by k shows history line k in its top row.
C36_HistoryKeepsScrolledLines ==
    [][ Len(Consumed) <= 1
        => /\ ScrolledOneLine
               => /\ HistoryLine(term', 1) = read_line(term, get_line(term, 0))
                  /\ \A k \in 2..term'.history_size :
                        HistoryLine(term', k) = HistoryLine(term, k - 1)
           /\ ~ScrolledOneLine
               => \A k \in 1..term'.history_size :
                     HistoryLine(term', k) = HistoryLine(term, k)
           /\ ~term'.alt_screen_active
               => \A k \in 1..term'.history_size :
                     ViewLine(term', k, 0) = HistoryLine(term', k)
      ]_vars

\* the history is full, its two lines differ, and the view is scrolled back
C36_Witness ==
    /\ ~term.alt_screen_active
    /\ term.history_size = term.scrollback
    /\ HistoryLine(term, 1) # HistoryLine(term, 2)
    /\ RowChars(term, HistoryLine(term, 2))[1] # 32
    /\ term.view_offset > 0

-----
(* CONTROL and the registry of available sets, under SpecSets *)

\* the key of CONTROL at place i after the action keys is a +NAME or -NAME
\* key for the set entry
IsDynamicKeyOf(key, entry) ==
    \/ /\ key.type = "SK_LOAD_FILE"
       /\ key.display_name = <<"+">> \o entry.name
       /\ key.sequence = entry.file_path
    \/ /\ key.type = "SK_UNLOAD_FILE"
       /\ key.display_name = <<"-">> \o entry.name
       /\ key.sequence = entry.name

\* C37: CONTROL consists of the 11 action keys followed by one dynamic key
\* per entry of the available registry, in registry order
C37_ControlMatchesRegistry ==
    /\ ControlSet(osk).length =
          NumActionKeys + Len(osk.available_dynamic_key_sets)
    /\ Len(ControlSet(osk).keys) = ControlSet(osk).length
    /\ SubSeq(ControlSet(osk).keys, 1, NumActionKeys) = osk_special_set_action_keys
    /\ \A i \in 1..(ControlSet(osk).length - NumActionKeys) :
          i <= Len(osk.available_dynamic_key_sets)
          => IsDynamicKeyOf(ControlSet(osk).keys[NumActionKeys + i],
                            osk.available_dynamic_key_sets[i])

-----
(* SpecNames: two key-set files of the configuration with the same base name,
   work/git.keys and home/git.keys *)

PathWorkGit == [dir |-> "work/", stem |-> "git", ext |-> ".keys"]
PathHomeGit == [dir |-> "home/", stem |-> "git", ext |-> ".keys"]

DiskNames ==
    (PathWorkGit :> [exists |-> TRUE, keys |-> TmuxKeys])
    @@ (PathHomeGit :> [exists |-> TRUE, keys |-> TmuxKeys])

NamesPaths == {PathWorkGit, PathHomeGit}

MakeNamesAvailable == MakeSetAvailableOf(NamesPaths)

AddNamesSet == AddCustomSetOf(NamesPaths, DiskNames)

TerminalActionNames == TerminalAction(SetsActions, {DiskNames})

NextNames ==
    MakeNamesAvailable \/ AddNamesSet \/ ToggleOsk \/ TerminalActionNames

SpecNames == InitSets /\ [][NextNames]_vars

\* the set loaded from path is among the special sets of o
IsPathLoaded(o, path) ==
    \E i \in 2..Len(o.all_special_sets) :
        /\ o.all_special_sets[i].is_dynamic
        /\ o.all_special_sets[i].file_path = path

\* the registry entries that have a key in CONTROL
EntriesWithKey(o) ==
    { i \in DOMAIN o.available_dynamic_key_sets :
        NumActionKeys + i <= ControlSet(o).length }

\* what the code keeps: the key of an entry follows the loaded names
KeyMatchesLoadedName ==
    \A i \in EntriesWithKey(osk) :
        ControlSet(osk).keys[NumActionKeys + i].type =
            IF is_dynamic_key_set_loaded(osk, osk.available_dynamic_key_sets[i].name)
            THEN "SK_UNLOAD_FILE" ELSE "SK_LOAD_FILE"

\* C38: the CONTROL key of a registry entry is the -NAME key that unloads
\* exactly when the set loaded from the entry's path is among the special
\* sets, and the +NAME key that loads otherwise
C38_KeyMatchesLoadedPath ==
    \A i \in EntriesWithKey(osk) :
        ControlSet(osk).keys[NumActionKeys + i].type =
            IF IsPathLoaded(osk, osk.available_dynamic_key_sets[i].file_path)
            THEN "SK_UNLOAD_FILE" ELSE "SK_LOAD_FILE"

-----
(* SpecMarker: a layout file whose base section opens with a {DEFAULT} line *)

MarkerFirstLayers ==
    Layers(0 :> << DefaultMarkerRow, CharRow(<<"a", "b">>) >>
           @@ 1 :> << CharRow(<<"A", "B">>) >>)

InitMarker ==
    /\ InitTerminal
    /\ osk = osk_create(MarkerFirstLayers)
    /\ sent = NothingSent

TerminalActionMarker == TerminalAction(OskActions, {DiskOsk})

NextMarker == ToggleOsk \/ HeldButton \/ TerminalActionMarker

SpecMarker == InitMarker /\ [][NextMarker]_vars

\* the selection of o is inside the rows and the effective row of the
\* character layers
CharsSelectionInRange(o) ==
    /\ o.set_idx >= 0 /\ o.char_idx >= 0
    /\ o.set_idx < get_current_num_char_rows(o)
    /\ osk_get_effective_row_ptr(o, o.set_idx) # NULL
    /\ o.char_idx < RowAt(o, osk_get_effective_row_ptr(o, o.set_idx)).length

\* the selection of o is inside the special sets and the selected set, which
\* has a key
SpecialSelectionInRange(o) ==
    /\ o.set_idx >= 0 /\ o.char_idx >= 0
    /\ o.set_idx < Len(o.all_special_sets)
    /\ o.all_special_sets[o.set_idx + 1].length >= 1
    /\ o.char_idx < o.all_special_sets[o.set_idx + 1].length

SelectionInRange(o) ==
    IF o.mode = OSK_MODE_CHARS
    THEN CharsSelectionInRange(o)
    ELSE SpecialSelectionInRange(o)

\* what the code keeps: the selection is in range whenever the first row has
\* an effective row under the held modifiers, the position
\* osk_validate_row_index falls back to
InRangeWithFirstRow ==
    osk.active /\ osk_get_effective_row_ptr(osk, 0) # NULL
        => SelectionInRange(osk)

\* C39: the selection indices are in range for the current mode of the
\* keyboard: in character mode set_idx is below the number of rows and
\* char_idx below the length of the effective row, in special mode set_idx is
\* below the number of special sets and char_idx below the length of the
\* selected set, which is at least 1
C39_SelectionInRange ==
    osk.active => SelectionInRange(osk)


\* what the code keeps: a selected key outside CONTROL, and a key of CONTROL
\* that neither loads nor unloads a set, is read from an array that is still
\* allocated
OtherKeysNotFreed ==
    [][(IsSelect /\ ~(/\ osk.mode = OSK_MODE_SPECIAL
                      /\ osk.set_idx + 1 = find_control_set(osk)
                      /\ SelectedKey(osk).type \in {"SK_LOAD_FILE", "SK_UNLOAD_FILE"}))
         => ~key_freed(Start(osk), [osk |-> osk'], SelectedKey(osk))]_vars

\* C40: while osk_handle_key_selection dispatches the selected key, the key
\* array that holds it is not freed before the last read of the key, also
\* when the key is a LoadSet or UnloadSet key of CONTROL and the dispatch
\* rebuilds CONTROL
C40_DispatchedKeyNotFreed ==
    [][IsSelect => ~key_freed(Start(osk), [osk |-> osk'], SelectedKey(osk))]_vars

=============================================================================
